---- MODULE Spec2Model ----
(***************************************************************************)
(* A model of go-eloquent: the BaseModel attribute state machine           *)
(* (model.go), the QueryBuilder and its SQL compiler (relationships.go),   *)
(* the relationship resolver (relationships.go) and Connection.Transaction *)
(* (connection.go).  Strings built by the code are modelled as sequences   *)
(* of tokens; every statement handed to the connection is recorded.        *)
(***************************************************************************)
EXTENDS Integers, Sequences, FiniteSets, TLC

VARIABLES
    \* ---- BaseModel (model.go:52-76) and the store behind DB()
    attributes,          \* BaseModel.attributes: column -> raw value
    original,            \* BaseModel.original: snapshot of the last sync
    exists,              \* BaseModel.exists
    wasRecentlyCreated,  \* BaseModel.wasRecentlyCreated
    timestamps,          \* BaseModel.timestamps
    deletedAt,           \* BaseModel.deletedAt ("" when soft deletes are off)
    fillable,            \* BaseModel.fillable
    guarded,             \* BaseModel.guarded
    driver,              \* Connection.Driver of DB(); "none" when DB() is nil
    dbRows,              \* committed rows of the model's table: key -> row
    clock,               \* number of time.Now() readings taken so far
    issued,              \* statements the last operation handed to the connection
    last,                \* what the last operation was given and what it returned
    \* ---- QueryBuilder (relationships.go:397-412)
    qb,                  \* the builder: table, wheres, orders, joins, groups, ...
    sent,                \* statements the last builder operation handed to Connection.Select
    res,                 \* what the last terminal operation returned
    qlast,               \* the last builder operation and the builder it was called on
    \* ---- RelationshipBuilder and Relationship (relationships.go:20-41)
    rb,                  \* RelationshipBuilder.model: the owner's table
    rel,                 \* the Relationship last defined
    \* ---- Connection.Transaction (connection.go:158-177)
    tx,                  \* the open *sqlx.Tx: its state and the writes pending on it
    call,                \* the Transaction call: where it is and what it did
    \* ---- ScopeRegistry (scopes)
    global,              \* ScopeRegistry.global: the global scopes registered
    \* ---- the package-level ConnectionManager (connection.go:38-55)
    manager,             \* var manager *ConnectionManager: 0 is nil, else an instance
    managers,            \* the ConnectionManager instances allocated: their connections
    caller               \* each goroutine: where it is in GetManager and what it holds

mvars == <<attributes, original, exists, wasRecentlyCreated, timestamps,
           deletedAt, fillable, guarded, driver, dbRows, clock, issued, last>>

qvars == <<qb, sent, res, qlast>>

rvars == <<rb, rel>>

tvars == <<tx, call>>

svars == <<global>>

cvars == <<manager, managers, caller>>

vars == <<mvars, qvars, rvars, svars, cvars, tvars>>

\* The goroutines that call GetManager.
Goroutines == {"g1", "g2", "g3"}

\* A goroutine that has not called GetManager: it holds no manager.
NoCaller == [pc |-> "idle", made |-> 0, ret |-> 0]

\* The package before any GetManager call: manager is nil, nothing allocated.
NoManager ==
    /\ manager = 0
    /\ managers = <<>>
    /\ caller = [g \in Goroutines |-> NoCaller]

----------------------------------------------------------------------------
(* Bounds of the model                                                     *)

MaxClock == 2

(* Values                                                                  *)

Nil == "nil"
primaryKey == "id"
createdAt == "created_at"
updatedAt == "updated_at"
DeletedAtColumn == "deleted_at"
ModelTable == "users"
UserKeys == {"name"}
Vals == {"a", "b"}
Ids == {"id1"}
Drivers == {"sqlite3", "mysql", "postgres"}
TimeStr == <<"t1", "t2", "t3", "t4", "t5", "t6", "t7", "t8", "t9">>

EmptyMap == [k \in {} |-> Nil]

(* time.Now(): the n-th reading of the clock                               *)
Now == TimeStr[clock + 1]

----------------------------------------------------------------------------
(* Helpers on sequences and maps                                           *)

Range(s) == {s[i] : i \in DOMAIN s}

MapSet(m, k, v) == [x \in DOMAIN m \cup {k} |-> IF x = k THEN v ELSE m[x]]

RECURSIVE Interleave(_, _)
(* strings.Join(parts, ", ") on token sequences *)
Interleave(parts, sep) ==
    IF Len(parts) = 0 THEN <<>>
    ELSE IF Len(parts) = 1 THEN parts[1]
    ELSE parts[1] \o <<sep>> \o Interleave(Tail(parts), sep)

RECURSIVE CountTok(_, _)
CountTok(sql, tok) ==
    IF sql = <<>> THEN 0
    ELSE (IF Head(sql) = tok THEN 1 ELSE 0) + CountTok(Tail(sql), tok)

Singletons(s) == [i \in DOMAIN s |-> <<s[i]>>]

(* n parameter markers, each a part to be joined *)
Placeholders(n) == [i \in 1..n |-> <<"?">>]

Min2(a, b) == IF a < b THEN a ELSE b

Max2(a, b) == IF a > b THEN a ELSE b

----------------------------------------------------------------------------
(* BaseModel: attribute methods                                            *)

(* BaseModel.casts of the model explored: name is read as an int *)
casts == [k \in {"name"} |-> "int"]

(* model.go:737-764.  Every raw value of the model is a string, so the type
   assertion of an "int" cast fails and the cast yields 0. *)
castAttribute(key, val, castType) ==
    CASE castType = "string" -> val
      [] castType = "int" -> 0
      [] OTHER -> val

(* model.go:566-578 *)
GetAttribute(key) ==
    IF key \notin DOMAIN attributes THEN Nil
    ELSE IF key \in DOMAIN casts THEN castAttribute(key, attributes[key], casts[key])
    ELSE attributes[key]

valuesEqualCast(a, b) == castAttribute("", a, "int") = castAttribute("", b, "int")

(* model.go:729-731 *)
valuesEqual(a, b) == a = b

GetDirtyOf(attrs, orig) ==
    {k \in DOMAIN attrs : k \notin DOMAIN orig \/ ~valuesEqual(attrs[k], orig[k])}

GetDirty == GetDirtyOf(attributes, original)

syncOriginalDrop(attrs) == EmptyMap

syncOriginal(attrs) == [k \in DOMAIN attrs |-> attrs[k]]

usesSoftDeletes == deletedAt # ""

----------------------------------------------------------------------------
(* Statements of the model and the store behind Connection.Exec.           *)
(* performInsert and performUpdate range over a Go map, whose iteration    *)
(* order is unspecified, appending each column and its value in lock-step: *)
(* a statement is recorded up to that order, as the columns it names with  *)
(* the value bound to each, the value bound to its WHERE key, and the      *)
(* syntax of its parameter markers.                                        *)

NoKey == "-"

Stmt(kind, cols, key) ==
    [kind |-> kind, table |-> ModelTable, cols |-> cols, key |-> key,
     markers |-> IF driver = "postgres" THEN "$n" ELSE "?"]

IsWrite(st) == st.kind \in {"INSERT", "UPDATE", "DELETE"}

(* the store after a statement that the backend accepted *)
ApplyStmt(rows, st) ==
    CASE st.kind = "INSERT" ->
            [k \in DOMAIN rows \cup {st.cols[primaryKey]} |->
                IF k = st.cols[primaryKey] THEN st.cols ELSE rows[k]]
      [] st.kind = "UPDATE" ->
            [k \in DOMAIN rows |->
                IF k # st.key THEN rows[k]
                ELSE [c \in DOMAIN rows[k] \cup DOMAIN st.cols |->
                        IF c \in DOMAIN st.cols THEN st.cols[c] ELSE rows[k][c]]]
      [] st.kind = "DELETE" ->
            [k \in DOMAIN rows \ {st.key} |-> rows[k]]
      [] OTHER -> rows

(* whether the backend must reject the statement: a duplicate key, or an
   UPDATE whose SET list is empty *)
MustFail(rows, st) ==
    \/ st.kind = "INSERT" /\ st.cols[primaryKey] \in DOMAIN rows
    \/ st.kind = "UPDATE" /\ DOMAIN st.cols = {}

----------------------------------------------------------------------------
(* BaseModel: the statements it builds                                     *)

(* model.go:797-818: every attribute is a column of the INSERT *)
InsertStmt(attrs) == Stmt("INSERT", attrs, NoKey)

(* model.go:845-850: the columns performUpdate puts in the SET list *)
UpdateCols(attrs) == DOMAIN attrs \ {primaryKey}

(* model.go:841-868 *)
UpdateStmt(attrs) ==
    Stmt("UPDATE", [c \in UpdateCols(attrs) |-> attrs[c]],
         IF primaryKey \in DOMAIN attrs THEN attrs[primaryKey] ELSE Nil)

(* model.go:890-895 *)
DeleteStmt(pkv) == Stmt("DELETE", EmptyMap, pkv)

(* model.go:785 *)
UuidStmt == Stmt("SELECT gen_random_uuid()", EmptyMap, NoKey)

----------------------------------------------------------------------------
(* BaseModel: the operations                                               *)

(* what an operation is given: recorded at its entry *)
Pre(op) ==
    [op |-> op, existed |-> exists, dirty |-> GetDirty, err |-> FALSE, found |-> {},
     given |-> EmptyMap]

(* before any operation *)
NoOp ==
    [op |-> "init", existed |-> FALSE, dirty |-> {}, err |-> FALSE, found |-> {},
     given |-> EmptyMap]

Failed(op) == [Pre(op) EXCEPT !.err = TRUE]

(* model.go:766-829.  uuidOk: whether SELECT gen_random_uuid() answered;
   gen: the generated key; order: the iteration order of the attribute map;
   execOk: whether the backend accepted the statement. *)
performInsert(op) ==
    IF driver = "none"
    THEN /\ last' = Failed(op)
         /\ issued' = <<>>
         /\ UNCHANGED <<attributes, original, exists, wasRecentlyCreated, dbRows, clock>>
    ELSE /\ timestamps => clock < MaxClock
         /\ \E gen \in Ids, uuidOk, execOk \in BOOLEAN :
              LET a1 == IF timestamps
                        THEN MapSet(MapSet(attributes, createdAt, Now), updatedAt, Now)
                        ELSE attributes
                  needId == (IF primaryKey \in DOMAIN a1 THEN a1[primaryKey] ELSE Nil) = Nil
                  asksDb == needId /\ driver = "postgres"
                  a2 == IF needId THEN MapSet(a1, primaryKey, gen) ELSE a1
              IN /\ asksDb \/ uuidOk
                 /\ LET st == InsertStmt(a2)
                          ok == execOk /\ ~MustFail(dbRows, st)
                      IN /\ issued' = (IF asksDb THEN <<UuidStmt>> ELSE <<>>) \o <<st>>
                         /\ attributes' = a2
                         /\ clock' = IF timestamps THEN clock + 1 ELSE clock
                         /\ IF ok
                            THEN /\ dbRows' = ApplyStmt(dbRows, st)
                                 /\ exists' = TRUE
                                 /\ wasRecentlyCreated' = TRUE
                                 /\ original' = syncOriginal(a2)
                                 /\ last' = Pre(op)
                            ELSE /\ last' = Failed(op)
                                 /\ UNCHANGED <<dbRows, exists, wasRecentlyCreated, original>>

(* model.go:831-877, entered with the attribute map attrs0 after `taken`
   readings of the clock by the caller. *)
performUpdate(op, attrs0, taken) ==
    IF driver = "none"
    THEN /\ last' = Failed(op)
         /\ issued' = <<>>
         /\ attributes' = attrs0
         /\ clock' = clock + taken
         /\ UNCHANGED <<original, exists, wasRecentlyCreated, dbRows>>
    ELSE /\ timestamps => clock + taken < MaxClock
         /\ \E execOk \in BOOLEAN :
              LET a1 == IF timestamps
                        THEN MapSet(attrs0, updatedAt, TimeStr[clock + taken + 1])
                        ELSE attrs0
              IN LET st == UpdateStmt(a1)
                       ok == execOk /\ ~MustFail(dbRows, st)
                   IN /\ issued' = <<st>>
                      /\ attributes' = a1
                      /\ clock' = clock + taken + (IF timestamps THEN 1 ELSE 0)
                      /\ UNCHANGED <<exists, wasRecentlyCreated>>
                      /\ IF ok
                         THEN /\ dbRows' = ApplyStmt(dbRows, st)
                              /\ original' = syncOriginal(a1)
                              /\ last' = Pre(op)
                         ELSE /\ last' = Failed(op)
                              /\ UNCHANGED <<dbRows, original>>

(* model.go:879-903 *)
performDelete(op) ==
    /\ UNCHANGED <<attributes, original, exists, wasRecentlyCreated, clock>>
    /\ IF driver = "none" \/ GetAttribute(primaryKey) = Nil
       THEN /\ last' = Failed(op)
            /\ issued' = <<>>
            /\ UNCHANGED dbRows
       ELSE \E execOk \in BOOLEAN :
              LET st == DeleteStmt(GetAttribute(primaryKey))
              IN /\ issued' = <<st>>
                 /\ IF execOk
                    THEN /\ dbRows' = ApplyStmt(dbRows, st)
                         /\ last' = Pre(op)
                    ELSE /\ last' = Failed(op)
                         /\ UNCHANGED dbRows

(* model.go:905-909 *)
runSoftDelete(op) ==
    /\ clock < MaxClock
    /\ performUpdate(op, MapSet(attributes, deletedAt, Now), 1)

(* model.go:911-915 *)
performRestore(op) ==
    performUpdate(op, MapSet(attributes, deletedAt, Nil), 0)

(* model.go:580-582 *)
SetAttribute(key, value) ==
    /\ attributes' = MapSet(attributes, key, value)
    /\ issued' = <<>>
    /\ last' = Pre("SetAttribute")
    /\ UNCHANGED <<original, exists, wasRecentlyCreated, dbRows, clock>>

(* model.go:720-727 *)
contains(slice, item) == \E i \in DOMAIN slice : slice[i] = item

isFillableGuardedFirst(key) ==
    IF Len(guarded) > 0 THEN ~contains(guarded, key)
    ELSE IF Len(fillable) > 0 THEN contains(fillable, key)
    ELSE TRUE

(* model.go:700-710 *)
isFillable(key) ==
    IF Len(fillable) > 0 THEN contains(fillable, key)
    ELSE IF Len(guarded) > 0 THEN ~contains(guarded, key)
    ELSE TRUE

(* model.go:622-629: the attribute map after Fill(attrs).  Each key is set
   at most once, so the order of the range over attrs does not matter. *)
Filled(attrs) ==
    [k \in DOMAIN attributes \cup {x \in DOMAIN attrs : isFillable(x)} |->
        IF k \in DOMAIN attrs /\ isFillable(k) THEN attrs[k] ELSE attributes[k]]

(* model.go:622-629 *)
Fill(attrs) ==
    /\ attributes' = Filled(attrs)
    /\ issued' = <<>>
    /\ last' = [Pre("Fill") EXCEPT !.given = attrs]
    /\ UNCHANGED <<original, exists, wasRecentlyCreated, dbRows, clock>>

(* model.go:659-662 *)
Update(attrs) == performUpdate("Update", Filled(attrs), 0)

(* model.go:632-637 *)
Save ==
    IF exists THEN performUpdate("Save", attributes, 0) ELSE performInsert("Save")

DeleteAlwaysHard == performDelete("Delete")

(* model.go:640-645 *)
Delete ==
    IF usesSoftDeletes THEN runSoftDelete("Delete") ELSE performDelete("Delete")

(* model.go:647-649 *)
ForceDelete == performDelete("ForceDelete")

RestoreUnchecked == performRestore("Restore")

(* model.go:651-656 *)
Restore ==
    IF ~usesSoftDeletes
    THEN /\ last' = Failed("Restore")
         /\ issued' = <<>>
         /\ UNCHANGED <<attributes, original, exists, wasRecentlyCreated, dbRows, clock>>
    ELSE performRestore("Restore")

(* model.go:268-320: a row read from the store hydrates a fresh instance *)
fillModelFromMap(row) ==
    /\ attributes' = row
    /\ original' = row
    /\ exists' = TRUE
    /\ wasRecentlyCreated' = FALSE
    /\ issued' = <<>>
    /\ last' = Pre("fillModelFromMap")
    /\ UNCHANGED <<dbRows, clock>>

(* model.go:437-449: a fresh, transient instance *)
NewBaseModel ==
    /\ attributes' = EmptyMap
    /\ original' = EmptyMap
    /\ exists' = FALSE
    /\ wasRecentlyCreated' = FALSE
    /\ issued' = <<>>
    /\ last' = Pre("NewBaseModel")
    /\ UNCHANGED <<dbRows, clock>>

----------------------------------------------------------------------------
(* Claims about Save                                                       *)

Inserts == {i \in DOMAIN issued : issued[i].kind = "INSERT"}

Updates == {i \in DOMAIN issued : issued[i].kind = "UPDATE"}

(* C1: Save() on a Persisted model whose dirty diff is empty performs zero
   I/O and returns success: no statement is handed to the connection. *)
C1_CleanSaveIssuesNothing ==
    (last.op = "Save" /\ last.existed /\ last.dirty = {})
        => (issued = <<>> /\ ~last.err)

(* C2: Save() on a Transient model, with a connection configured, hands the
   connection exactly one INSERT and no other write statement; when it
   succeeds exists is true and the original snapshot equals the current
   attributes. *)
C2_TransientSaveInsertsOnce ==
    (last.op = "Save" /\ ~last.existed /\ driver # "none")
        => /\ Cardinality(Inserts) = 1
           /\ \A i \in DOMAIN issued : IsWrite(issued[i]) => i \in Inserts
           /\ ~last.err => (exists /\ original = attributes)

C2_Witness ==
    /\ last.op = "Save" /\ ~last.existed /\ ~last.err
    /\ exists /\ Cardinality(Inserts) = 1 /\ DOMAIN attributes # {}

(* C3: the UPDATE issued by Save() on a Persisted model with a non-empty
   dirty diff names only the changed columns, plus the updated-timestamp
   column when timestamps are enabled, and never the primary key. *)
C3_UpdateOnlyChangedColumns ==
    (last.op = "Save" /\ last.existed /\ last.dirty # {})
        => \A i \in Updates :
              /\ primaryKey \notin DOMAIN issued[i].cols
              /\ DOMAIN issued[i].cols \subseteq
                    (last.dirty \ {primaryKey})
                        \cup (IF timestamps THEN {updatedAt} ELSE {})

----------------------------------------------------------------------------
(* QueryBuilder: the clause model                                          *)

MaxTxStmts == 2

MaxChain == 2
MaxMatch == 2

(* relationships.go:447-454.  A nil *int is the empty sequence. *)
NewQueryBuilder ==
    [table |-> "", wheres |-> <<>>, orders |-> <<>>, joins |-> <<>>,
     groups |-> <<>>, havings |-> <<>>, limitValue |-> <<>>, offsetValue |-> <<>>,
     columns |-> <<"*">>, distinct |-> FALSE]

WhereClause(column, operator, value, boolean, type, values) ==
    [Column |-> column, Operator |-> operator, Value |-> value, Boolean |-> boolean,
     Type |-> type, Values |-> values]

(* relationships.go:457-460 *)
Table(q, table) == [q EXCEPT !.table = table]

(* relationships.go:463-466 *)
Select(q, columns) == [q EXCEPT !.columns = columns]

(* relationships.go:469-472 *)
Distinct(q) == [q EXCEPT !.distinct = TRUE]

(* relationships.go:897-920: one argument is a value compared with "=",
   two arguments are an operator and a value *)
addWhere(q, column, boolean, args) ==
    LET operator == IF Len(args) = 1 THEN "=" ELSE args[1]
        value == IF Len(args) = 1 THEN args[1] ELSE args[2]
    IN [q EXCEPT !.wheres =
            Append(@, WhereClause(column, operator, value, boolean, "basic", <<>>))]

(* relationships.go:475-477 *)
Where(q, column, args) == addWhere(q, column, "and", args)

(* relationships.go:480-482 *)
OrWhere(q, column, args) == addWhere(q, column, "or", args)

(* relationships.go:485-493 *)
WhereIn(q, column, values) ==
    [q EXCEPT !.wheres = Append(@, WhereClause(column, "", Nil, "and", "in", values))]

(* relationships.go:496-505 *)
WhereNotIn(q, column, values) ==
    [q EXCEPT !.wheres = Append(@, WhereClause(column, "not in", Nil, "and", "in", values))]

(* relationships.go:508-515 *)
WhereNull(q, column) ==
    [q EXCEPT !.wheres = Append(@, WhereClause(column, "", Nil, "and", "null", <<>>))]

(* relationships.go:518-526 *)
WhereNotNull(q, column) ==
    [q EXCEPT !.wheres = Append(@, WhereClause(column, "not null", Nil, "and", "null", <<>>))]

(* relationships.go:529-537 *)
WhereBetween(q, column, min, max) ==
    [q EXCEPT !.wheres =
        Append(@, WhereClause(column, "", Nil, "and", "between", <<min, max>>))]

JoinClause(table, first, operator, second, type) ==
    [Table |-> table, First |-> first, Operator |-> operator, Second |-> second,
     Type |-> type]

(* relationships.go:565-574 *)
Join(q, table, first, operator, second) ==
    [q EXCEPT !.joins = Append(@, JoinClause(table, first, operator, second, "inner"))]

(* relationships.go:577-586 *)
LeftJoin(q, table, first, operator, second) ==
    [q EXCEPT !.joins = Append(@, JoinClause(table, first, operator, second, "left"))]

(* relationships.go:589-598 *)
RightJoin(q, table, first, operator, second) ==
    [q EXCEPT !.joins = Append(@, JoinClause(table, first, operator, second, "right"))]

(* relationships.go:601-607 *)
CrossJoin(q, table) ==
    [q EXCEPT !.joins = Append(@, JoinClause(table, "", "", "", "cross"))]

(* strings.ToLower and strings.ToUpper on the words the builder handles *)
ToLower(w) ==
    CASE w = "ASC" -> "asc" [] w = "DESC" -> "desc" [] w = "Desc" -> "desc"
      [] OTHER -> w

ToUpper(w) ==
    CASE w = "asc" -> "ASC" [] w = "desc" -> "DESC" [] w = "and" -> "AND"
      [] w = "or" -> "OR" [] w = "inner" -> "INNER" [] w = "left" -> "LEFT"
      [] w = "right" -> "RIGHT" [] w = "cross" -> "CROSS" [] OTHER -> w

(* relationships.go:610-619 *)
OrderBy(q, column, direction) ==
    LET dir == IF direction = "" THEN "asc" ELSE direction
    IN [q EXCEPT !.orders = Append(@, [Column |-> column, Direction |-> ToLower(dir)])]

(* relationships.go:645-648 *)
GroupBy(q, columns) == [q EXCEPT !.groups = @ \o columns]

(* relationships.go:651-659 *)
Having(q, column, operator, value) ==
    [q EXCEPT !.havings = Append(@, [Column |-> column, Operator |-> operator,
                                     Value |-> value, Boolean |-> "and"])]

(* relationships.go:662-670 *)
OrHaving(q, column, operator, value) ==
    [q EXCEPT !.havings = Append(@, [Column |-> column, Operator |-> operator,
                                     Value |-> value, Boolean |-> "or"])]

(* relationships.go:673-676 *)
Limit(q, limit) == [q EXCEPT !.limitValue = <<limit>>]

(* relationships.go:684-687 *)
Offset(q, offset) == [q EXCEPT !.offsetValue = <<offset>>]

(* relationships.go:922-958: a copy of every clause list, limit and offset *)
clone(q) ==
    [table |-> q.table,
     wheres |-> [i \in DOMAIN q.wheres |-> q.wheres[i]],
     orders |-> [i \in DOMAIN q.orders |-> q.orders[i]],
     joins |-> [i \in DOMAIN q.joins |-> q.joins[i]],
     groups |-> [i \in DOMAIN q.groups |-> q.groups[i]],
     havings |-> [i \in DOMAIN q.havings |-> q.havings[i]],
     limitValue |-> q.limitValue,
     offsetValue |-> q.offsetValue,
     columns |-> [i \in DOMAIN q.columns |-> q.columns[i]],
     distinct |-> q.distinct]

----------------------------------------------------------------------------
(* QueryBuilder.ToSQL (relationships.go:961-1084): the SQL text as a       *)
(* sequence of tokens, with the argument list built beside it              *)

Out(sql, args) == [sql |-> sql, args |-> args]

Cat(a, b) == Out(a.sql \o b.sql, a.args \o b.args)

JoinSQLAlwaysOn(join) ==
    <<ToUpper(join.Type), "JOIN", join.Table, "ON", join.First, join.Operator, join.Second>>

(* relationships.go:977-990 *)
JoinSQL(join) ==
    <<ToUpper(join.Type), "JOIN", join.Table>>
        \o (IF join.Type # "cross"
            THEN <<"ON", join.First, join.Operator, join.Second>>
            ELSE <<>>)

RECURSIVE JoinsSQL(_)
JoinsSQL(joins) ==
    IF joins = <<>> THEN <<>> ELSE JoinSQL(Head(joins)) \o JoinsSQL(Tail(joins))

WhereSQLBindsNothing(where) ==
    Out(<<where.Column, "IN", "(", "?", ")">>, <<>>)

(* relationships.go:1002-1034: one predicate and the arguments it binds *)
WhereSQL(where) ==
    CASE where.Type = "basic" ->
            Out(<<where.Column, where.Operator, "?">>, <<where.Value>>)
      [] where.Type = "in" ->
            Out(<<where.Column>>
                    \o (IF where.Operator = "not in" THEN <<"NOT IN", "(">> ELSE <<"IN", "(">>)
                    \o Interleave(Placeholders(Len(where.Values)), ",")
                    \o <<")">>,
                where.Values)
      [] where.Type = "null" ->
            Out(<<where.Column>>
                    \o (IF where.Operator = "not null" THEN <<"IS NOT NULL">> ELSE <<"IS NULL">>),
                <<>>)
      [] where.Type = "between" ->
            Out(<<where.Column, "BETWEEN", "?", "AND", "?">>,
                <<where.Values[1], where.Values[2]>>)
      [] OTHER -> Out(<<>>, <<>>)

RECURSIVE WheresSQL(_, _)
(* relationships.go:995-1035: the conjunction is written before every
   predicate but the first *)
WheresSQL(wheres, i) ==
    IF i > Len(wheres) THEN Out(<<>>, <<>>)
    ELSE Cat(Cat(Out(IF i > 1 THEN <<ToUpper(wheres[i].Boolean)>> ELSE <<>>, <<>>),
                 WhereSQL(wheres[i])),
             WheresSQL(wheres, i + 1))

RECURSIVE HavingsSQL(_, _)
(* relationships.go:1047-1058 *)
HavingsSQL(havings, i) ==
    IF i > Len(havings) THEN Out(<<>>, <<>>)
    ELSE Cat(Out((IF i > 1 THEN <<ToUpper(havings[i].Boolean)>> ELSE <<>>)
                    \o <<havings[i].Column, havings[i].Operator, "?">>,
                 <<havings[i].Value>>),
             HavingsSQL(havings, i + 1))

(* relationships.go:1062-1069 *)
OrdersSQL(orders) ==
    Interleave([i \in DOMAIN orders |->
                    <<orders[i].Column, ToUpper(orders[i].Direction)>>], ",")

ToSQL(q) ==
    LET select == Out(<<"SELECT">> \o (IF q.distinct THEN <<"DISTINCT">> ELSE <<>>)
                        \o Interleave(Singletons(q.columns), ",")
                        \o <<"FROM", q.table>> \o JoinsSQL(q.joins), <<>>)
        where == IF Len(q.wheres) > 0
                 THEN Cat(Out(<<"WHERE">>, <<>>), WheresSQL(q.wheres, 1))
                 ELSE Out(<<>>, <<>>)
        group == IF Len(q.groups) > 0
                 THEN Out(<<"GROUP BY">> \o Interleave(Singletons(q.groups), ","), <<>>)
                 ELSE Out(<<>>, <<>>)
        having == IF Len(q.havings) > 0
                  THEN Cat(Out(<<"HAVING">>, <<>>), HavingsSQL(q.havings, 1))
                  ELSE Out(<<>>, <<>>)
        order == IF Len(q.orders) > 0
                 THEN Out(<<"ORDER BY">> \o OrdersSQL(q.orders), <<>>)
                 ELSE Out(<<>>, <<>>)
        limit == IF q.limitValue # <<>>
                 THEN Out(<<"LIMIT", "?">>, <<q.limitValue[1]>>)
                 ELSE Out(<<>>, <<>>)
        offset == IF q.offsetValue # <<>>
                  THEN Out(<<"OFFSET", "?">>, <<q.offsetValue[1]>>)
                  ELSE Out(<<>>, <<>>)
    IN Cat(select, Cat(where, Cat(group, Cat(having, Cat(order, Cat(limit, offset))))))

----------------------------------------------------------------------------
(* Connection.Select (connection.go:122-131) as the builder's operations   *)
(* see it: the backend reads the statement it is handed.  `n` is the       *)
(* number of rows of the joined tables that satisfy the WHERE clause.      *)

AggregateColumns ==
    {"COUNT(*) as count", "SUM(amount) as sum", "AVG(amount) as avg",
     "MAX(amount) as max", "MIN(amount) as min"}

HasTok(sql, tok) == \E i \in DOMAIN sql : sql[i] = tok

IsAggregate(st) == \E i \in DOMAIN st.sql : st.sql[i] \in AggregateColumns

IsGrouped(st) == HasTok(st.sql, "GROUP BY") \/ HasTok(st.sql, "HAVING")

(* the value bound to OFFSET ?, 0 without an OFFSET clause *)
OffsetOf(st) == IF HasTok(st.sql, "OFFSET") THEN st.args[Len(st.args)] ELSE 0

HasLimit(st) == HasTok(st.sql, "LIMIT")

(* the value bound to LIMIT ? *)
LimitOf(st) ==
    st.args[Len(st.args) - (IF HasTok(st.sql, "OFFSET") THEN 1 ELSE 0)]

(* rows left of `base` rows by the statement's OFFSET and LIMIT *)
Window(st, base) ==
    LET after == Max2(0, base - OffsetOf(st))
    IN IF HasLimit(st) THEN Min2(LimitOf(st), after) ELSE after

(* the results of a statement: [n: rows returned, value: the aggregate in the
   first row returned, -1 when there is none].  A scalar aggregate without
   grouping yields one row holding the aggregate over the n matching rows; with
   grouping it yields one row per group that passes HAVING. *)
Results(st, n) ==
    IF ~IsAggregate(st)
    THEN {[n |-> Window(st, n), value |-> -1]}
    ELSE IF ~IsGrouped(st)
    THEN {[n |-> Window(st, 1), value |-> IF Window(st, 1) > 0 THEN n ELSE -1]}
    ELSE {[n |-> Window(st, g), value |-> IF Window(st, g) > 0 THEN v ELSE -1] :
            g \in 0..n, v \in 1..Max2(n, 1)}

----------------------------------------------------------------------------
(* QueryBuilder: the terminal operations                                   *)

(* err: the error returned ("" for nil); n: rows returned; value: the scalar
   returned, -1 when there is none; matching: the rows that satisfied the
   statement's WHERE clause; cause: what made the operation fail, the select
   itself ("failure") or an empty result ("empty") *)
Result(err, n, value, matching) ==
    [err |-> err, n |-> n, value |-> value, matching |-> matching,
     cause |-> IF err = "select failed" THEN "failure"
               ELSE IF err = "no records found" THEN "empty" ELSE ""]

NoResult == Result("", 0, -1, 0)

(* relationships.go:726-729: Get returns the rows as they are *)
GetRet(r, n) == Result("", r.n, -1, n)

(* relationships.go:738-741: what First makes of the rows it got *)
FirstRet(r, n) ==
    IF r.n = 0 THEN Result("no records found", 0, -1, n)
    ELSE Result("", 1, r.value, n)

(* Connection.Select (connection.go:122-131) on the statement builder q
   compiles to: it answers with rows or with an error.  `pre` is the builder
   the operation `op` was called on; `first` when First reads the rows. *)
ConnectionSelect(pre, q, op, first) ==
    /\ sent' = <<ToSQL(q)>>
    /\ qlast' = [op |-> op, pre |-> pre]
    /\ \E selOk \in BOOLEAN :
         IF ~selOk
         THEN res' = Result("select failed", 0, -1, 0)
         ELSE \E n \in 0..MaxMatch : \E r \in Results(ToSQL(q), n) :
                  res' = IF first THEN FirstRet(r, n) ELSE GetRet(r, n)

(* relationships.go:745-751, 759-765: any error of First becomes
   "model not found" *)
OrFail(r) == IF r.err # "" THEN [r EXCEPT !.err = "model not found"] ELSE r

(* First on builder q with its error rewritten by OrFail *)
ConnectionSelectOrFail(pre, q, op) ==
    /\ sent' = <<ToSQL(q)>>
    /\ qlast' = [op |-> op, pre |-> pre]
    /\ \E selOk \in BOOLEAN :
         IF ~selOk
         THEN res' = OrFail(Result("select failed", 0, -1, 0))
         ELSE \E n \in 0..MaxMatch : \E r \in Results(ToSQL(q), n) :
                  res' = OrFail(FirstRet(r, n))

(* relationships.go:726-729, on builder q *)
QueryBuilderGet(q, op) ==
    /\ qb' = q
    /\ ConnectionSelect(q, q, op, FALSE)

(* relationships.go:732-742, on builder q: First sets LIMIT 1 on the builder
   it is called on *)
QueryBuilderFirst(q, op) ==
    /\ qb' = Limit(q, 1)
    /\ ConnectionSelect(q, Limit(q, 1), op, TRUE)

CountQueryKeepsWindow(q, column) ==
    [clone(q) EXCEPT !.columns = <<column>>, !.orders = <<>>]

(* relationships.go:774-778: the builder Count runs *)
CountQuery(q, column) ==
    [clone(q) EXCEPT !.columns = <<column>>, !.orders = <<>>,
                     !.limitValue = <<>>, !.offsetValue = <<>>]

(* relationships.go:768-790, on builder q: First is called on the clone *)
QueryBuilderCount(q, op) ==
    /\ qb' = q
    /\ ConnectionSelect(q, Limit(CountQuery(q, "COUNT(*) as count"), 1), op, TRUE)

(* relationships.go:841-842, 857-858, 873-874, 885-886: the builder an
   aggregate runs *)
AggregateQuery(q, column) == [clone(q) EXCEPT !.columns = <<column>>]

(* the aggregate `op` on builder qb: First is called on the clone *)
Aggregate(op, column) ==
    /\ qb' = qb
    /\ ConnectionSelect(qb, Limit(AggregateQuery(qb, column), 1), op, TRUE)
    /\ UNCHANGED <<mvars, rvars, svars, cvars, tvars>>

Get == QueryBuilderGet(qb, "Get") /\ UNCHANGED <<mvars, rvars, svars, cvars, tvars>>

First == QueryBuilderFirst(qb, "First") /\ UNCHANGED <<mvars, rvars, svars, cvars, tvars>>

Count == QueryBuilderCount(qb, "Count") /\ UNCHANGED <<mvars, rvars, svars, cvars, tvars>>

(* relationships.go:745-751 *)
FirstOrFail ==
    /\ qb' = Limit(qb, 1)
    /\ ConnectionSelectOrFail(qb, Limit(qb, 1), "FirstOrFail")
    /\ UNCHANGED <<mvars, rvars, svars, cvars, tvars>>

(* relationships.go:754-756: Find adds its predicate to the builder it is
   called on, then reads the first row *)
QueryBuilderFind(id) ==
    /\ QueryBuilderFirst(Where(qb, "id", <<id>>), "Find")
    /\ UNCHANGED <<mvars, rvars, svars, cvars, tvars>>

(* relationships.go:759-765 *)
FindOrFail(id) ==
    /\ qb' = Limit(Where(qb, "id", <<id>>), 1)
    /\ ConnectionSelectOrFail(Where(qb, "id", <<id>>),
                              Limit(Where(qb, "id", <<id>>), 1), "FindOrFail")
    /\ UNCHANGED <<mvars, rvars, svars, cvars, tvars>>

(* relationships.go:840-854 *)
Sum == Aggregate("Sum", "SUM(amount) as sum")

(* relationships.go:856-870 *)
Avg == Aggregate("Avg", "AVG(amount) as avg")

(* relationships.go:872-882 *)
Max == Aggregate("Max", "MAX(amount) as max")

(* relationships.go:884-894 *)
Min == Aggregate("Min", "MIN(amount) as min")

----------------------------------------------------------------------------
(* BaseModel: the queries a model starts (model.go:92-158, 404-436)        *)

(* model.go:92-105 *)
NewModelQueryBuilder == Table(NewQueryBuilder, ModelTable)

(* whether a stored row satisfies one predicate of the kinds the model's
   queries use; a column the row lacks is NULL *)
RowMatches(row, where) ==
    LET value == IF where.Column \in DOMAIN row THEN row[where.Column] ELSE Nil
    IN CASE where.Type = "basic" /\ where.Operator = "=" ->
                value # Nil /\ value = where.Value
         [] where.Type = "null" ->
                IF where.Operator = "not null" THEN value # Nil ELSE value = Nil
         [] where.Type = "in" ->
                IF where.Operator = "not in"
                THEN value # Nil /\ value \notin Range(where.Values)
                ELSE value # Nil /\ value \in Range(where.Values)
         [] OTHER -> FALSE

(* the keys of the stored rows a builder's predicates, all joined by AND,
   select *)
SelectRows(q, rows) ==
    {k \in DOMAIN rows : \A i \in DOMAIN q.wheres : RowMatches(rows[k], q.wheres[i])}

(* the statement a builder hands to Connection.Select: relationships.go:726-729
   passes the text of ToSQL as it is *)
SelectStmt(q) ==
    [kind |-> "SELECT", table |-> q.table, cols |-> EmptyMap, key |-> NoKey,
     markers |-> "?", sql |-> ToSQL(q).sql, args |-> ToSQL(q).args]

(* a query of the model's table run on builder q; `first` when only the
   first row is read (relationships.go:732-742) *)
ModelSelect(op, q, first) ==
    /\ driver # "none"
    /\ issued' = <<SelectStmt(IF first THEN Limit(q, 1) ELSE q)>>
    /\ \E selOk \in BOOLEAN :
         LET keys == SelectRows(q, dbRows)
         IN IF ~selOk \/ (first /\ keys = {})
            THEN last' = Failed(op)
            ELSE \E got \in (IF first THEN {{k} : k \in keys} ELSE {keys}) :
                    last' = [Pre(op) EXCEPT !.found = got]
    /\ UNCHANGED <<attributes, original, exists, wasRecentlyCreated, dbRows, clock>>

(* model.go:434-436, 149-158; relationships.go:754-756 *)
Find(id) == ModelSelect("Find", Where(NewModelQueryBuilder, "id", <<id>>), TRUE)

(* model.go:424-426, 108-122 *)
All == ModelSelect("All", NewModelQueryBuilder, FALSE)

(* the maps handed to Fill and Update *)
FillInputs ==
    UNION {[ks -> Vals \cup Ids] : ks \in SUBSET (UserKeys \cup {primaryKey})}

WellTyped(attrs) ==
    \A k \in DOMAIN attrs : IF k = primaryKey THEN attrs[k] \in Ids ELSE attrs[k] \in Vals

(* the fillable and guarded lists a model is configured with *)
MassAssignment ==
    {<<<<>>, <<>>>>, <<<<"name">>, <<>>>>, <<<<>>, <<"name">>>>, <<<<"name">>, <<"name">>>>}

ModelInit ==
    /\ attributes = EmptyMap
    /\ original = EmptyMap
    /\ exists = FALSE
    /\ wasRecentlyCreated = FALSE
    /\ timestamps \in BOOLEAN
    /\ deletedAt \in {DeletedAtColumn, ""}
    /\ fillable = <<>>
    /\ guarded = <<>>
    /\ driver \in {"none", "sqlite3", "postgres"}
    /\ dbRows = EmptyMap
    /\ clock = 0
    /\ issued = <<>>
    /\ last = NoOp
    /\ qb = <<>> /\ sent = <<>> /\ res = <<>> /\ qlast = <<>>
    /\ rb = <<>> /\ rel = <<>>
    /\ tx = <<>> /\ call = <<>>
    /\ global = <<>>
    /\ NoManager

ModelNext ==
    \/ \E k \in UserKeys \cup {primaryKey}, v \in Vals \cup Ids :
         /\ k \in UserKeys => v \in Vals
         /\ k = primaryKey => v \in Ids
         /\ SetAttribute(k, v) /\ UNCHANGED <<timestamps, deletedAt, fillable, guarded, driver, qvars, rvars, svars, cvars, tvars>>
    \/ \E attrs \in FillInputs :
         /\ WellTyped(attrs)
         /\ Update(attrs) /\ UNCHANGED <<timestamps, deletedAt, fillable, guarded, driver, qvars, rvars, svars, cvars, tvars>>
    \/ Save /\ UNCHANGED <<timestamps, deletedAt, fillable, guarded, driver, qvars, rvars, svars, cvars, tvars>>
    \/ Delete /\ UNCHANGED <<timestamps, deletedAt, fillable, guarded, driver, qvars, rvars, svars, cvars, tvars>>
    \/ ForceDelete /\ UNCHANGED <<timestamps, deletedAt, fillable, guarded, driver, qvars, rvars, svars, cvars, tvars>>
    \/ Restore /\ UNCHANGED <<timestamps, deletedAt, fillable, guarded, driver, qvars, rvars, svars, cvars, tvars>>
    \/ \E k \in DOMAIN dbRows :
         fillModelFromMap(dbRows[k]) /\ UNCHANGED <<timestamps, deletedAt, fillable, guarded, driver, qvars, rvars, svars, cvars, tvars>>
    \/ NewBaseModel /\ UNCHANGED <<timestamps, deletedAt, fillable, guarded, driver, qvars, rvars, svars, cvars, tvars>>
    \/ \E id \in Ids :
         Find(id) /\ UNCHANGED <<timestamps, deletedAt, fillable, guarded, driver, qvars, rvars, svars, cvars, tvars>>
    \/ All /\ UNCHANGED <<timestamps, deletedAt, fillable, guarded, driver, qvars, rvars, svars, cvars, tvars>>

SpecModel == ModelInit /\ [][ModelNext]_vars

----------------------------------------------------------------------------
(* BaseModel: mass assignment on a model configured with fillable and      *)
(* guarded lists                                                           *)

FillInit ==
    /\ attributes = EmptyMap
    /\ original = EmptyMap
    /\ exists = FALSE
    /\ wasRecentlyCreated = FALSE
    /\ timestamps = TRUE
    /\ deletedAt = DeletedAtColumn
    /\ \E ma \in MassAssignment : fillable = ma[1] /\ guarded = ma[2]
    /\ driver = "sqlite3"
    /\ dbRows = EmptyMap
    /\ clock = 0
    /\ issued = <<>>
    /\ last = NoOp
    /\ qb = <<>> /\ sent = <<>> /\ res = <<>> /\ qlast = <<>>
    /\ rb = <<>> /\ rel = <<>>
    /\ tx = <<>> /\ call = <<>>
    /\ global = <<>>
    /\ NoManager

FillNext ==
    \/ \E k \in UserKeys \cup {primaryKey}, v \in Vals \cup Ids :
         /\ k \in UserKeys => v \in Vals
         /\ k = primaryKey => v \in Ids
         /\ SetAttribute(k, v) /\ UNCHANGED <<timestamps, deletedAt, fillable, guarded, driver, qvars, rvars, svars, cvars, tvars>>
    \/ \E attrs \in FillInputs :
         /\ WellTyped(attrs)
         /\ Fill(attrs) /\ UNCHANGED <<timestamps, deletedAt, fillable, guarded, driver, qvars, rvars, svars, cvars, tvars>>
    \/ \E attrs \in FillInputs :
         /\ WellTyped(attrs)
         /\ Update(attrs) /\ UNCHANGED <<timestamps, deletedAt, fillable, guarded, driver, qvars, rvars, svars, cvars, tvars>>
    \/ Save /\ UNCHANGED <<timestamps, deletedAt, fillable, guarded, driver, qvars, rvars, svars, cvars, tvars>>
    \/ NewBaseModel /\ UNCHANGED <<timestamps, deletedAt, fillable, guarded, driver, qvars, rvars, svars, cvars, tvars>>

SpecFill == FillInit /\ [][FillNext]_vars

----------------------------------------------------------------------------
(* QueryBuilder: the calls explored                                        *)

LimitVals == {2}
OffsetVals == {1}

(* the number of clauses the chain has set so far *)
ChainLen(q) ==
    Len(q.wheres) + Len(q.orders) + Len(q.joins) + Len(q.groups) + Len(q.havings)
        + Len(q.limitValue) + Len(q.offsetValue)
        + (IF q.distinct THEN 1 ELSE 0) + (IF q.columns # <<"*">> THEN 1 ELSE 0)

(* a chained call: the builder changes and nothing is sent *)
Chain(q) ==
    /\ ChainLen(qb) < MaxChain
    /\ qb' = q
    /\ sent' = <<>>
    /\ res' = NoResult
    /\ qlast' = [op |-> "chain", pre |-> q]
    /\ UNCHANGED <<mvars, rvars, svars, cvars, tvars>>

(* a model just constructed: model.go:437-449 *)
ModelIdle ==
    /\ attributes = EmptyMap
    /\ original = EmptyMap
    /\ exists = FALSE
    /\ wasRecentlyCreated = FALSE
    /\ timestamps = TRUE
    /\ deletedAt = DeletedAtColumn
    /\ fillable = <<>>
    /\ guarded = <<>>
    /\ dbRows = EmptyMap
    /\ clock = 0
    /\ issued = <<>>
    /\ last = NoOp

QueryInit ==
    /\ ModelIdle
    /\ driver = "mysql"
    /\ qb = Table(NewQueryBuilder, "users")
    /\ sent = <<>>
    /\ res = NoResult
    /\ qlast = [op |-> "init", pre |-> Table(NewQueryBuilder, "users")]
    /\ rb = <<>> /\ rel = <<>>
    /\ tx = <<>> /\ call = <<>>
    /\ global = <<>>
    /\ NoManager

QueryNext ==
    \/ Chain(Where(qb, "status", <<"status1">>))
    \/ Chain(Where(qb, "age", <<">", "age1">>))
    \/ Chain(OrWhere(qb, "status", <<"status2">>))
    \/ \E values \in {<<>>, <<"status1">>, <<"status1", "status2">>} :
         Chain(WhereIn(qb, "status", values))
    \/ \E values \in {<<>>, <<"age1", "age2">>} :
         Chain(WhereNotIn(qb, "age", values))
    \/ Chain(WhereNull(qb, "status"))
    \/ Chain(WhereNotNull(qb, "age"))
    \/ Chain(WhereBetween(qb, "age", "age1", "age2"))
    \/ Chain(Join(qb, "posts", "users.id", "=", "posts.user_id"))
    \/ Chain(LeftJoin(qb, "posts", "users.id", "=", "posts.user_id"))
    \/ Chain(RightJoin(qb, "posts", "users.id", "=", "posts.user_id"))
    \/ Chain(CrossJoin(qb, "tags"))
    \/ Chain(GroupBy(qb, <<"city">>))
    \/ Chain(Having(qb, "total", ">", "total1"))
    \/ Chain(OrHaving(qb, "total", "<", "total2"))
    \/ \E direction \in {"", "DESC"} : Chain(OrderBy(qb, "name", direction))
    \/ \E limit \in LimitVals : Chain(Limit(qb, limit))
    \/ \E offset \in OffsetVals : Chain(Offset(qb, offset))
    \/ Chain(Distinct(qb))
    \/ Chain(Select(qb, <<"id", "name">>))
    \/ Get
    \/ First
    \/ FirstOrFail
    \/ \E id \in Ids : ChainLen(qb) < MaxChain /\ QueryBuilderFind(id)
    \/ \E id \in Ids : ChainLen(qb) < MaxChain /\ FindOrFail(id)
    \/ Count
    \/ Sum
    \/ Avg
    \/ Max
    \/ Min

SpecQuery == QueryInit /\ [][QueryNext]_vars

----------------------------------------------------------------------------
(* Claims about the aggregates                                             *)

Aggregates == {"Sum", "Avg", "Max", "Min"}

AggregateColumn(op) ==
    CASE op = "Sum" -> "SUM(amount) as sum"
      [] op = "Avg" -> "AVG(amount) as avg"
      [] op = "Max" -> "MAX(amount) as max"
      [] op = "Min" -> "MIN(amount) as min"
      [] OTHER -> "COUNT(*) as count"

(* the statement that selects `column` over builder q with q's order, limit
   and offset dropped and its other clauses kept, read as a first row *)
WindowFree(q, column) ==
    ToSQL([q EXCEPT !.columns = <<column>>, !.orders = <<>>,
                    !.limitValue = <<1>>, !.offsetValue = <<>>])

(* C5: the statement Sum, Avg, Max or Min sends carries no ORDER BY and no
   OFFSET of the builder it was called on, its LIMIT is not the caller's, and
   the builder's where, join, group-by and having clauses are in it unchanged *)
C5_AggregatesIgnoreWindow ==
    qlast.op \in Aggregates
        => /\ Len(sent) = 1
           /\ ~HasTok(sent[1].sql, "ORDER BY")
           /\ ~HasTok(sent[1].sql, "OFFSET")
           /\ sent[1] = WindowFree(qlast.pre, AggregateColumn(qlast.op))

(* C6, as written: the statement Count sends carries none of the caller's
   order, limit and offset and keeps the where, join, group-by and having
   clauses, and a count that is returned is the number of matching rows *)
C6_CountEqualsMatchingRows ==
    qlast.op = "Count"
        => /\ Len(sent) = 1
           /\ ~HasTok(sent[1].sql, "ORDER BY")
           /\ ~HasTok(sent[1].sql, "OFFSET")
           /\ sent[1] = WindowFree(qlast.pre, "COUNT(*) as count")
           /\ res.err # "select failed" => (res.err = "" /\ res.value = res.matching)

(* C6, amended: the statement Count sends carries none of the caller's
   order, limit and offset and keeps the where, join, group-by and having
   clauses; without group-by and having clauses a count is returned whenever
   the select succeeds and it is the number of matching rows, whatever limit
   and offset the caller had set *)
C6_CountIgnoresWindow ==
    qlast.op = "Count"
        => /\ Len(sent) = 1
           /\ ~HasTok(sent[1].sql, "ORDER BY")
           /\ ~HasTok(sent[1].sql, "OFFSET")
           /\ sent[1] = WindowFree(qlast.pre, "COUNT(*) as count")
           /\ (res.err # "select failed" /\ ~IsGrouped(sent[1]))
                => (res.err = "" /\ res.value = res.matching)

(* Count returned 2 for two matching rows on a builder whose chain had set a
   predicate and an offset *)
C6_Witness ==
    /\ qlast.op = "Count"
    /\ qlast.pre.wheres # <<>>
    /\ qlast.pre.offsetValue # <<>>
    /\ res.err = ""
    /\ res.value = 2
    /\ res.matching = 2

----------------------------------------------------------------------------
(* Claims about the compiled statement                                     *)

(* the positions of the parameter markers, left to right *)
Markers(sql) == SelectSeq([i \in 1..Len(sql) |-> i], LAMBDA i : sql[i] = "?")

(* the tokens a parameter marker can belong to: a predicate's column, or the
   LIMIT or OFFSET keyword *)
OwnerToks == {"status", "age", "total", "id", "LIMIT", "OFFSET"}

HasOwner(sql, i) == \E j \in 1..(i - 1) : sql[j] \in OwnerToks

(* the position of the nearest owner token to the left of position i *)
OwnerPos(sql, i) ==
    CHOOSE j \in 1..(i - 1) :
        /\ sql[j] \in OwnerToks
        /\ \A k \in (j + 1)..(i - 1) : sql[k] \notin OwnerToks

(* the values the explored calls pass for a column, in the order they pass
   them *)
ValuesOf(column) ==
    CASE column = "status" -> <<"status1", "status2">>
      [] column = "age" -> <<"age1", "age2">>
      [] column = "total" -> <<"total1", "total2">>
      [] column = "id" -> <<"id1">>
      [] OTHER -> <<>>

Rank(column, value) ==
    CHOOSE r \in DOMAIN ValuesOf(column) : ValuesOf(column)[r] = value

(* argument `arg` is one that the clause at token `owner` was given *)
OwnedBy(owner, arg) ==
    IF owner \in {"LIMIT", "OFFSET"}
    THEN arg \in LimitVals \cup OffsetVals \cup {1}
    ELSE arg \in Range(ValuesOf(owner))

(* as many markers as arguments; the k-th argument belongs to the clause the
   k-th marker stands in; markers of one clause take its arguments in the
   order the call passed them *)
Aligned(st) ==
    LET m == Markers(st.sql)
    IN /\ Len(m) = Len(st.args)
       /\ CountTok(st.sql, "?") = Len(st.args)
       /\ \A k \in DOMAIN m :
            /\ HasOwner(st.sql, m[k])
            /\ OwnedBy(st.sql[OwnerPos(st.sql, m[k])], st.args[k])
            /\ (k > 1 /\ HasOwner(st.sql, m[k - 1])
                      /\ OwnerPos(st.sql, m[k]) = OwnerPos(st.sql, m[k - 1]))
                 => Rank(st.sql[OwnerPos(st.sql, m[k])], st.args[k - 1])
                        < Rank(st.sql[OwnerPos(st.sql, m[k])], st.args[k])

(* C7: for every chain of predicates, having, limit and offset calls the
   compiled statement has as many parameter markers as arguments and the N-th
   marker, left to right, stands where the N-th argument belongs; the same
   holds of every statement a terminal operation sends *)
C7_PlaceholdersMatchArgs ==
    /\ Aligned(ToSQL(qb))
    /\ \A i \in DOMAIN sent : Aligned(sent[i])

(* a two-value IN list followed by a limit: three markers, three arguments *)
C7_Witness ==
    /\ \E i \in DOMAIN qb.wheres :
          qb.wheres[i].Type = "in" /\ Len(qb.wheres[i].Values) = 2
    /\ qb.limitValue # <<>>
    /\ Len(ToSQL(qb).args) = 3

EmptyList(sql) ==
    \E i \in 1..(Len(sql) - 1) : sql[i] = "(" /\ sql[i + 1] = ")"

(* C8: a builder given WhereIn with an empty value list compiles to a
   statement without an empty parenthesised list, which no SQL grammar but
   SQLite's accepts *)
C8_EmptyWhereInIsValidSQL ==
    (\E i \in DOMAIN qb.wheres :
        /\ qb.wheres[i].Type = "in"
        /\ qb.wheres[i].Operator # "not in"
        /\ qb.wheres[i].Values = <<>>)
        => ~EmptyList(ToSQL(qb).sql)

----------------------------------------------------------------------------
(* RelationshipBuilder and Relationship (relationships.go:7-328)           *)

(* model.go:927-936, on the names the explored calls pass *)
toSnakeCase(str) ==
    CASE str = "Profile" -> "profile"
      [] str = "UserTag" -> "user_tag"
      [] OTHER -> str

(* the order Go's > puts the explored table names in *)
TableOrder == <<"posts", "tagss", "users">>

StringGreater(a, b) ==
    \E i, j \in DOMAIN TableOrder : TableOrder[i] = a /\ TableOrder[j] = b /\ i > j

(* relationships.go:333-338 *)
generatePivotTableName(table1, table2) ==
    IF StringGreater(table1, table2) THEN table2 \o "_" \o table1
    ELSE table1 \o "_" \o table2

(* relationships.go:21-35; Query is never assigned *)
Relationship(type) ==
    [Type |-> type, Related |-> "", ForeignKey |-> "", LocalKey |-> "",
     PivotTable |-> "", FirstKey |-> "", SecondKey |-> "", ThroughModel |-> "",
     ThroughKey |-> "", MorphType |-> "", MorphId |-> "", Constraints |-> <<>>]

NoRelationship == Relationship("")

(* what the relationship operations leave of the builder state before one
   of them has run *)
Defined ==
    /\ qb' = NewQueryBuilder
    /\ sent' = <<>>
    /\ res' = NoResult
    /\ qlast' = [op |-> "define", pre |-> NewQueryBuilder]
    /\ UNCHANGED <<mvars, rb, svars, cvars, tvars>>

(* relationships.go:51-66; foreignKey is <<>> or <<fk>> *)
HasOne(related, foreignKey) ==
    /\ rel' = [Relationship("hasOne") EXCEPT
                !.Related = related,
                !.ForeignKey = IF Len(foreignKey) > 0 THEN foreignKey[1]
                               ELSE rb.table \o "_id",
                !.LocalKey = primaryKey]
    /\ Defined

(* relationships.go:69-84 *)
HasMany(related, foreignKey) ==
    /\ rel' = [Relationship("hasMany") EXCEPT
                !.Related = related,
                !.ForeignKey = IF Len(foreignKey) > 0 THEN foreignKey[1]
                               ELSE rb.table \o "_id",
                !.LocalKey = primaryKey]
    /\ Defined

(* relationships.go:87-102 *)
BelongsTo(related, foreignKey) ==
    /\ rel' = [Relationship("belongsTo") EXCEPT
                !.Related = related,
                !.ForeignKey = IF Len(foreignKey) > 0 THEN foreignKey[1]
                               ELSE toSnakeCase(related) \o "_id",
                !.LocalKey = "id"]
    /\ Defined

(* relationships.go:105-123 *)
BelongsToMany(related, pivotTable) ==
    /\ rel' = [Relationship("belongsToMany") EXCEPT
                !.Related = related,
                !.PivotTable = IF Len(pivotTable) > 0 THEN pivotTable[1]
                               ELSE generatePivotTableName(rb.table,
                                                           toSnakeCase(related) \o "s"),
                !.FirstKey = rb.table \o "_id",
                !.SecondKey = toSnakeCase(related) \o "_id",
                !.LocalKey = primaryKey]
    /\ Defined

(* relationships.go:126-138 *)
HasOneThrough(related, through, firstKey, secondKey) ==
    /\ rel' = [Relationship("hasOneThrough") EXCEPT
                !.Related = related, !.ThroughModel = through,
                !.FirstKey = firstKey, !.SecondKey = secondKey,
                !.LocalKey = primaryKey]
    /\ Defined

(* relationships.go:141-153 *)
HasManyThrough(related, through, firstKey, secondKey) ==
    /\ rel' = [Relationship("hasManyThrough") EXCEPT
                !.Related = related, !.ThroughModel = through,
                !.FirstKey = firstKey, !.SecondKey = secondKey,
                !.LocalKey = primaryKey]
    /\ Defined

(* relationships.go:156-167 *)
MorphOne(related, morphName) ==
    /\ rel' = [Relationship("morphOne") EXCEPT
                !.Related = related,
                !.MorphType = morphName \o "_type", !.MorphId = morphName \o "_id",
                !.LocalKey = primaryKey]
    /\ Defined

(* relationships.go:170-181 *)
MorphMany(related, morphName) ==
    /\ rel' = [Relationship("morphMany") EXCEPT
                !.Related = related,
                !.MorphType = morphName \o "_type", !.MorphId = morphName \o "_id",
                !.LocalKey = primaryKey]
    /\ Defined

(* relationships.go:184-193 *)
MorphTo(morphName) ==
    /\ rel' = [Relationship("morphTo") EXCEPT
                !.MorphType = morphName \o "_type", !.MorphId = morphName \o "_id"]
    /\ Defined

(* relationships.go:199-228: a constraint is a call kept for buildQuery *)
Constraint(fn, column, args) == [fn |-> fn, column |-> column, args |-> args]

(* the constraint is built where it is appended, from the call's arguments *)
Constrained(fn, column, args) ==
    /\ rel # NoRelationship
    /\ Len(rel.Constraints) < MaxChain
    /\ rel' = [rel EXCEPT !.Constraints = Append(@, Constraint(fn, column, args))]
    /\ Defined

(* relationships.go:199-204 *)
RelationshipWhere(column, args) == Constrained("Where", column, args)

(* relationships.go:207-212 *)
RelationshipWhereIn(column, values) == Constrained("WhereIn", column, values)

(* relationships.go:215-220 *)
RelationshipOrderBy(column, direction) == Constrained("OrderBy", column, <<direction>>)

(* relationships.go:223-228 *)
RelationshipLimit(limit) == Constrained("Limit", "", <<limit>>)

ApplyConstraint(q, c) ==
    CASE c.fn = "Where" -> Where(q, c.column, c.args)
      [] c.fn = "WhereIn" -> WhereIn(q, c.column, c.args)
      [] c.fn = "OrderBy" -> OrderBy(q, c.column, c.args[1])
      [] c.fn = "Limit" -> Limit(q, c.args[1])
      [] OTHER -> q

RECURSIVE ApplyConstraintsReversed(_, _)
ApplyConstraintsReversed(q, cs) ==
    IF cs = <<>> THEN q
    ELSE ApplyConstraint(ApplyConstraintsReversed(q, Tail(cs)), Head(cs))

RECURSIVE ApplyConstraints(_, _)
(* relationships.go:322-325 *)
ApplyConstraints(q, cs) ==
    IF cs = <<>> THEN q ELSE ApplyConstraints(ApplyConstraint(q, Head(cs)), Tail(cs))

(* relationships.go:293-328 *)
buildQuery(r) ==
    LET new == NewQueryBuilder
        q == CASE r.Type \in {"hasOne", "hasMany"} ->
                    Where(Table(new, r.Related), r.ForeignKey, <<"=", "PLACEHOLDER">>)
               [] r.Type = "belongsTo" ->
                    Where(Table(new, r.Related), r.LocalKey, <<"=", "PLACEHOLDER">>)
               [] r.Type = "belongsToMany" ->
                    Where(Join(Table(new, r.Related), r.PivotTable,
                               r.Related \o ".id", "=",
                               r.PivotTable \o "." \o r.SecondKey),
                          r.PivotTable \o "." \o r.FirstKey, <<"=", "PLACEHOLDER">>)
               [] r.Type \in {"hasOneThrough", "hasManyThrough"} ->
                    Where(Join(Table(new, r.Related), r.ThroughModel,
                               r.Related \o "." \o r.SecondKey, "=",
                               r.ThroughModel \o ".id"),
                          r.ThroughModel \o "." \o r.FirstKey, <<"=", "PLACEHOLDER">>)
               [] r.Type \in {"morphOne", "morphMany"} ->
                    Where(Where(Table(new, r.Related), r.MorphType, <<"=", "PLACEHOLDER">>),
                          r.MorphId, <<"=", "PLACEHOLDER">>)
               [] OTHER -> new
    IN ApplyConstraints(q, r.Constraints)

(* an operation that returns an error without sending anything *)
Unsent(q, op, err) ==
    /\ qb' = q
    /\ sent' = <<>>
    /\ res' = Result(err, 0, -1, 0)
    /\ qlast' = [op |-> op, pre |-> q]

(* relationships.go:251-272 *)
RelationshipGet ==
    /\ rel # NoRelationship
    /\ LET q == buildQuery(rel)
       IN IF rel.Type \in {"hasOne", "belongsTo", "morphOne"}
          THEN QueryBuilderFirst(q, "Relationship.Get")
          ELSE IF rel.Type \in {"hasMany", "belongsToMany", "hasManyThrough", "morphMany"}
          THEN QueryBuilderGet(q, "Relationship.Get")
          ELSE IF rel.Type = "morphTo"
          THEN Unsent(q, "Relationship.Get", "MorphTo relationship not yet implemented")
          ELSE Unsent(q, "Relationship.Get", "unsupported relationship type")
    /\ UNCHANGED <<mvars, rvars, svars, cvars, tvars>>

(* relationships.go:275-278 *)
RelationshipFirst ==
    /\ rel # NoRelationship
    /\ QueryBuilderFirst(buildQuery(rel), "Relationship.First")
    /\ UNCHANGED <<mvars, rvars, svars, cvars, tvars>>

(* relationships.go:281-284 *)
RelationshipCount ==
    /\ rel # NoRelationship
    /\ QueryBuilderCount(buildQuery(rel), "Relationship.Count")
    /\ UNCHANGED <<mvars, rvars, svars, cvars, tvars>>

(* the owners explored: a model of rb.table with its key attributes set or
   not yet set *)
Owners(table) ==
    IF table = "users"
    THEN {EmptyMap, [k \in {"id"} |-> "u1"], [k \in {"id"} |-> "u2"]}
    ELSE {EmptyMap, [k \in {"id"} |-> "p1"],
          [k \in {"id", "user_id"} |-> IF k = "id" THEN "p1" ELSE "u1"]}

RelationInit ==
    /\ rb \in {[table |-> "users"], [table |-> "posts"]}
    /\ attributes \in Owners(rb.table)
    /\ original = attributes
    /\ exists = (attributes # EmptyMap)
    /\ wasRecentlyCreated = FALSE
    /\ timestamps = TRUE
    /\ deletedAt = DeletedAtColumn
    /\ fillable = <<>>
    /\ guarded = <<>>
    /\ driver = "sqlite3"
    /\ dbRows = EmptyMap
    /\ clock = 0
    /\ issued = <<>>
    /\ last = NoOp
    /\ rel = NoRelationship
    /\ qb = NewQueryBuilder
    /\ sent = <<>>
    /\ res = NoResult
    /\ qlast = [op |-> "init", pre |-> NewQueryBuilder]
    /\ tx = <<>>
    /\ call = <<>>
    /\ global = <<>>
    /\ NoManager

RelationNext ==
    \/ \E foreignKey \in {<<>>, <<"user_id">>} : HasOne("profiles", foreignKey)
    \/ \E foreignKey \in {<<>>, <<"user_id">>} : HasMany("posts", foreignKey)
    \/ \E foreignKey \in {<<>>, <<"user_id">>} : BelongsTo("users", foreignKey)
    \/ \E pivotTable \in {<<>>, <<"post_tags">>} : BelongsToMany("tags", pivotTable)
    \/ HasOneThrough("comments", "posts", "user_id", "post_id")
    \/ HasManyThrough("comments", "posts", "user_id", "post_id")
    \/ MorphOne("images", "imageable")
    \/ MorphMany("comments", "commentable")
    \/ MorphTo("imageable")
    \/ RelationshipWhere("status", <<"status1">>)
    \/ \E values \in {<<>>, <<"status1", "status2">>} : RelationshipWhereIn("status", values)
    \/ RelationshipOrderBy("name", "DESC")
    \/ \E limit \in LimitVals : RelationshipLimit(limit)
    \/ RelationshipGet
    \/ RelationshipFirst
    \/ RelationshipCount

SpecRelation == RelationInit /\ [][RelationNext]_vars

----------------------------------------------------------------------------
(* Claims about the relationship resolver                                  *)

RelationshipOps == {"Relationship.Get", "Relationship.First", "Relationship.Count"}

(* the owner's key a relationship filters on: the owner's foreign-key value
   for belongsTo, the owner's local key value otherwise; Nil when the owner
   does not have it *)
OwnerKey(r) ==
    IF r.Type = "belongsTo" THEN GetAttribute(r.ForeignKey) ELSE GetAttribute(r.LocalKey)

(* the column of the related table the structural filter is on *)
FilterColumn(r) == IF r.Type = "belongsTo" THEN r.LocalKey ELSE r.ForeignKey

(* C4: a hasOne, hasMany or belongsTo relationship queries the related table
   with the structural filter bound to the owner's key value; when the owner
   does not have the key the operation returns an error and sends nothing *)
C4_ResolverBindsOwnerKey ==
    (qlast.op \in RelationshipOps /\ rel.Type \in {"hasOne", "hasMany", "belongsTo"})
        => IF OwnerKey(rel) = Nil
           THEN sent = <<>> /\ res.err # ""
           ELSE /\ Len(sent) = 1
                /\ qlast.pre.table = rel.Related
                /\ qlast.pre.wheres[1].Column = FilterColumn(rel)
                /\ sent[1].args[1] = OwnerKey(rel)

----------------------------------------------------------------------------
(* Connection.Transaction (connection.go:158-177)                          *)

(* rows the statements executed on the *sqlx.Tx write: keys no model uses *)
TxKeys == {"tx1", "tx2"}

RECURSIVE ApplyAll(_, _)
(* the store after the statements of a transaction, in the order they ran *)
ApplyAll(rows, stmts) ==
    IF stmts = <<>> THEN rows ELSE ApplyAll(ApplyStmt(rows, Head(stmts)), Tail(stmts))

NoTx == [state |-> "none", writes |-> <<>>]

NoCall == [pc |-> "idle", log |-> <<>>, outcome |-> "", ret |-> "", snapshot |-> EmptyMap]

(* connection.go:159-162: c.Begin(); when it fails Transaction returns the
   error and fn is not called *)
TransactionBegin ==
    /\ call.pc \in {"idle", "done"}
    /\ \E beginOk \in BOOLEAN :
         IF beginOk
         THEN /\ tx' = [state |-> "open", writes |-> <<>>]
              /\ call' = [pc |-> "fn", log |-> <<"begin">>, outcome |-> "", ret |-> "",
                          snapshot |-> dbRows]
         ELSE /\ tx' = NoTx
              /\ call' = [NoCall EXCEPT !.pc = "done", !.ret = "err", !.snapshot = dbRows]
    /\ UNCHANGED <<mvars, qvars, rvars, svars, cvars>>

(* fn calls tx.Exec: the statement, when accepted, is pending on the
   transaction *)
TxExec(st) ==
    /\ call.pc = "fn"
    /\ Len(tx.writes) < MaxTxStmts
    /\ \E execOk \in BOOLEAN :
         /\ MustFail(ApplyAll(dbRows, tx.writes), st) => ~execOk
         /\ tx' = IF execOk THEN [tx EXCEPT !.writes = Append(@, st)] ELSE tx
    /\ UNCHANGED <<mvars, qvars, rvars, svars, cvars, call>>

(* fn calls Save on a model: model.go:632-637, through DB() *)
FnSave ==
    /\ call.pc = "fn"
    /\ Save
    /\ UNCHANGED <<timestamps, deletedAt, fillable, guarded, driver, qvars, rvars, svars, cvars, tvars>>

(* fn sets an attribute of the model it will save *)
FnSetAttribute(key, value) ==
    /\ call.pc = "fn"
    /\ SetAttribute(key, value)
    /\ UNCHANGED <<timestamps, deletedAt, fillable, guarded, driver, qvars, rvars, svars, cvars, tvars>>

DeferredWithoutRecover(outcome) ==
    IF outcome = "err" THEN "rollback" ELSE "commit"

(* connection.go:164-172: what the deferred function does with the
   transaction once fn has returned nil, returned an error, or panicked *)
Deferred(outcome) ==
    IF outcome = "panic" THEN "rollback"
    ELSE IF outcome = "err" THEN "rollback"
    ELSE "commit"

(* connection.go:174-176 and the deferred function: fn ends, the deferred
   function commits or rolls back, then the error is returned or the panic
   goes on to the caller.  The value returned is the one fn returned: the
   result of Commit is assigned after the return value was set. *)
TransactionEnd(outcome) ==
    /\ call.pc = "fn"
    /\ \E commitOk \in BOOLEAN :
         LET does == Deferred(outcome)
             committed == does = "commit" /\ commitOk
         IN /\ tx' = [tx EXCEPT !.state = IF committed THEN "committed"
                                          ELSE IF does = "commit" THEN "commit failed"
                                          ELSE "rolled back"]
            /\ dbRows' = IF committed THEN ApplyAll(dbRows, tx.writes) ELSE dbRows
            /\ call' = [call EXCEPT !.pc = "done",
                                    !.log = @ \o <<does>>
                                              \o <<IF outcome = "panic" THEN "panic" ELSE "return">>,
                                    !.outcome = outcome,
                                    !.ret = IF outcome = "nil" THEN "nil" ELSE outcome]
    /\ UNCHANGED <<attributes, original, exists, wasRecentlyCreated, timestamps,
                   deletedAt, fillable, guarded, driver, clock, issued, last,
                   qvars, rvars, svars, cvars>>

TxInsert(key) ==
    Stmt("INSERT", [c \in {primaryKey, "name"} |-> IF c = primaryKey THEN key ELSE "a"], NoKey)

TxInit ==
    /\ ModelIdle
    /\ driver = "sqlite3"
    /\ tx = NoTx
    /\ call = NoCall
    /\ global = <<>>
    /\ NoManager
    /\ qb = <<>> /\ sent = <<>> /\ res = <<>> /\ qlast = <<>>
    /\ rb = <<>> /\ rel = <<>>

TxNext ==
    \/ TransactionBegin
    \/ \E key \in TxKeys : TxExec(TxInsert(key))
    \/ \E key \in TxKeys : TxExec(DeleteStmt(key))
    \/ FnSave
    \/ \E value \in Vals : FnSetAttribute("name", value)
    \/ \E outcome \in {"nil", "err", "panic"} : TransactionEnd(outcome)

SpecTx == TxInit /\ [][TxNext]_vars

----------------------------------------------------------------------------
(* Claims about Connection.Transaction                                     *)

(* the rows the transaction's statements write, as the store has them *)
TxRows(rows) == [k \in DOMAIN rows \cap TxKeys |-> rows[k]]

(* C9: while fn runs nothing is committed or rolled back; when fn returns
   nil the deferred function commits, and when fn returns an error or panics
   it rolls back, before the error or the panic reaches the caller; a
   transaction that was begun sees exactly one commit or rollback; after a
   rollback none of the statements executed on the transaction is in the
   store, and after a commit that succeeded all of them are *)
C9_CommitIffNormalReturn ==
    /\ call.pc = "fn" => call.log = <<"begin">> /\ tx.state = "open"
    /\ (call.pc = "done" /\ call.log = <<>>) => (tx.state = "none" /\ call.ret = "err")
    /\ (call.pc = "done" /\ call.log # <<>>)
          => /\ Len(call.log) = 3
             /\ call.log[1] = "begin"
             /\ CountTok(call.log, "commit") + CountTok(call.log, "rollback") = 1
             /\ call.log[2] = "commit" <=> call.outcome = "nil"
             /\ call.log[2] = "rollback" <=> call.outcome \in {"err", "panic"}
             /\ call.log[3] = (IF call.outcome = "panic" THEN "panic" ELSE "return")
             /\ call.outcome \in {"err", "panic"}
                   => (tx.state = "rolled back" /\ TxRows(dbRows) = TxRows(call.snapshot))
             /\ tx.state = "committed"
                   => TxRows(dbRows) = TxRows(ApplyAll(call.snapshot, tx.writes))

(* fn executed a statement on the transaction and panicked: the statement was
   rolled back and the panic went on *)
C9_Witness ==
    /\ call.pc = "done"
    /\ call.outcome = "panic"
    /\ tx.writes # <<>>
    /\ call.log = <<"begin", "rollback", "panic">>
    /\ TxRows(dbRows) = TxRows(call.snapshot)
    /\ TxRows(ApplyAll(call.snapshot, tx.writes)) # TxRows(call.snapshot)

(* C10: when fn returns an error after a Save() that succeeded, the store
   holds the rows it held when the transaction began *)
C10_SaveIsRolledBack ==
    (call.pc = "done" /\ call.outcome = "err" /\ last.op = "Save" /\ ~last.err)
        => dbRows = call.snapshot

----------------------------------------------------------------------------
(* Claims about Delete                                                     *)

(* a stored row that a soft delete has marked *)
Trashed(row) == DeletedAtColumn \in DOMAIN row /\ row[DeletedAtColumn] # Nil

(* C11: the rows Find and All return never include a row a Delete has
   marked as deleted (a hard-deleted row is not in the store at all) *)
C11_DefaultQueriesSkipDeleted ==
    last.op \in {"Find", "All"} => \A k \in last.found : ~Trashed(dbRows[k])

(* C12: with a soft-delete column configured and a connection, Delete hands
   the connection one UPDATE whose SET list gives the column the time just
   read, and no DELETE, and leaves exists as it was; ForceDelete never sends
   anything but a DELETE, and sends one for the model's key whenever the
   model has a key and a connection *)
C12_SoftDeleteUpdatesForceDeleteDeletes ==
    /\ (last.op = "Delete" /\ usesSoftDeletes /\ driver # "none")
          => /\ Len(issued) = 1
             /\ issued[1].kind = "UPDATE"
             /\ deletedAt \in DOMAIN issued[1].cols
             /\ issued[1].cols[deletedAt] = TimeStr[clock - (IF timestamps THEN 1 ELSE 0)]
             /\ attributes[deletedAt] = issued[1].cols[deletedAt]
             /\ exists = last.existed
    /\ last.op = "ForceDelete"
          => /\ \A i \in DOMAIN issued : issued[i].kind = "DELETE"
             /\ (driver # "none" /\ GetAttribute(primaryKey) # Nil)
                   => (Len(issued) = 1 /\ issued[1].key = GetAttribute(primaryKey))
             /\ exists = last.existed

(* a soft Delete of a persisted model succeeded: its row is still stored,
   marked with the time of the delete *)
C12_Witness ==
    /\ last.op = "Delete" /\ usesSoftDeletes /\ last.existed /\ ~last.err
    /\ exists
    /\ GetAttribute(primaryKey) \in DOMAIN dbRows
    /\ Trashed(dbRows[GetAttribute(primaryKey)])

(* C13: after a hard delete that succeeded the model is not Persisted, and
   no Save sends an UPDATE for a key whose row is not stored *)
C13_HardDeletedIsNotPersisted ==
    /\ (last.op = "ForceDelete" /\ ~last.err) => ~exists
    /\ last.op = "Save" => \A i \in Updates : issued[i].key \in DOMAIN dbRows

----------------------------------------------------------------------------
(* Claims about the first-row operations                                   *)

FirstRowOps == {"First", "Find", "FirstOrFail", "FindOrFail"}

(* the errors that tell the caller no row matched *)
NotFoundErrors == {"no records found", "model not found"}

(* C14: a first-row operation that found no row returns a not-found error,
   and one whose select failed returns an error that is not a not-found
   error *)
C14_NotFoundIsNotFailure ==
    qlast.op \in FirstRowOps
        => /\ res.cause = "empty" => res.err \in NotFoundErrors
           /\ res.cause = "failure" => (res.err # "" /\ res.err \notin NotFoundErrors)

----------------------------------------------------------------------------
(* Claims about Update, Fill and the dirty set                             *)

(* C15: an Update or Delete whose statement names a key that no stored row
   has returns an error *)
C15_MissingRowIsAnError ==
    [][(/\ last'.op \in {"Update", "Delete"}
        /\ issued' # <<>>
        /\ issued'[1].key \notin DOMAIN dbRows) => last'.err]_vars

(* what the mass-assignment rule authorizes: the fillable list alone when it
   is not empty, otherwise every key the guarded list does not name *)
Authorized(key) ==
    IF fillable # <<>> THEN key \in Range(fillable) ELSE key \notin Range(guarded)

(* C16: Fill writes exactly the authorized keys of its argument, each with
   the value given, and leaves every other attribute as it was *)
C16_FillWritesOnlyAuthorized ==
    [][last'.op = "Fill" =>
          LET written == {k \in DOMAIN last'.given : Authorized(k)}
          IN /\ DOMAIN attributes' = DOMAIN attributes \cup written
             /\ \A k \in written : attributes'[k] = last'.given[k]
             /\ \A k \in DOMAIN attributes \ written : attributes'[k] = attributes[k]]_vars

(* Fill was given a key both lists name, which was written, and a key the
   fillable list does not name, which was dropped *)
C16_Witness ==
    /\ last.op = "Fill"
    /\ fillable # <<>>
    /\ \E k \in DOMAIN last.given :
         k \in Range(fillable) /\ k \in Range(guarded) /\ attributes[k] = last.given[k]
    /\ \E k \in DOMAIN last.given : k \notin Range(fillable) /\ k \notin DOMAIN attributes

(* the operations that load or persist the model *)
Synced ==
    \/ last.op \in {"fillModelFromMap", "Save", "Update", "Restore"}
    \/ last.op = "Delete" /\ usesSoftDeletes

(* C17: the dirty set is exactly the attributes whose raw value is absent
   from or different in the snapshot, whatever their casts read, and it is
   empty right after every successful load, Save, Update, soft Delete and
   Restore *)
C17_DirtyIsRawDifference ==
    /\ GetDirty = {k \in DOMAIN attributes :
                      k \notin DOMAIN original \/ attributes[k] # original[k]}
    /\ (Synced /\ ~last.err) => (GetDirty = {} /\ original = attributes)

(* a persisted model whose cast attribute was changed, so that the cast
   reads the same before and after, has been saved *)
C17_Witness ==
    /\ last.op = "Save" /\ last.existed /\ ~last.err
    /\ "name" \in last.dirty
    /\ GetAttribute("name") = castAttribute("name", "a", casts["name"])
    /\ GetDirty = {}

----------------------------------------------------------------------------
(* Claims about the dialect of the statements sent                         *)

(* C18: on postgres no statement handed to the connection carries a ?
   marker, the SELECTs of the query builder included, and on the other
   drivers every marker is a ? *)
C18_EveryStatementIsRewritten ==
    \A i \in DOMAIN issued :
        LET st == issued[i]
        IN /\ IsWrite(st) => st.markers = (IF driver = "postgres" THEN "$n" ELSE "?")
           /\ st.kind = "SELECT" =>
                 /\ st.markers = "?"
                 /\ driver = "postgres" => CountTok(st.sql, "?") = 0

----------------------------------------------------------------------------
(* Scopes: the global scopes and the soft-delete scope                     *)

MaxScopes == 2

(* ActiveScope{} and SoftDeleteScope{includeDeleted, onlyDeleted} *)
ActiveScope == [type |-> "Active", includeDeleted |-> FALSE, onlyDeleted |-> FALSE]

SoftDeleteScope(includeDeleted, onlyDeleted) ==
    [type |-> "SoftDelete", includeDeleted |-> includeDeleted, onlyDeleted |-> onlyDeleted]

WithTrashedScope == SoftDeleteScope(TRUE, FALSE)

OnlyTrashedScope == SoftDeleteScope(FALSE, TRUE)

GlobalScopes == {ActiveScope, SoftDeleteScope(FALSE, FALSE), WithTrashedScope, OnlyTrashedScope}

NoScope == [type |-> "", includeDeleted |-> FALSE, onlyDeleted |-> FALSE]

(* ActiveScope.Apply and SoftDeleteScope.Apply on builder q *)
ScopeApply(scope, q) ==
    IF deletedAt = "" THEN q
    ELSE IF scope.type = "Active" THEN WhereNull(q, deletedAt)
    ELSE IF scope.onlyDeleted THEN WhereNotNull(q, deletedAt)
    ELSE IF ~scope.includeDeleted THEN WhereNull(q, deletedAt)
    ELSE q

RECURSIVE ApplyScopes(_, _)
(* the loop of ScopeRegistry.ApplyGlobal: every scope in turn, on the same
   builder *)
ApplyScopes(scopes, q) ==
    IF scopes = <<>> THEN q
    ELSE ApplyScopes(Tail(scopes), ScopeApply(Head(scopes), q))

RegisterGlobal(scope) ==
    /\ Len(global) < MaxScopes
    /\ global' = Append(global, scope)
    /\ qlast' = [op |-> "RegisterGlobal", pre |-> qb, scope |-> scope]
    /\ UNCHANGED <<mvars, qb, sent, res, rvars, cvars, tvars>>

ApplyGlobal ==
    /\ Len(qb.wheres) + Len(global) <= MaxScopes + 1
    /\ qb' = ApplyScopes(global, qb)
    /\ qlast' = [op |-> "ApplyGlobal", pre |-> qb, scope |-> NoScope]
    /\ UNCHANGED <<mvars, sent, res, rvars, svars, cvars, tvars>>

(* scope.Apply(qb, model) called on the builder directly *)
Apply(scope) ==
    /\ Len(qb.wheres) <= MaxScopes
    /\ qb' = ScopeApply(scope, qb)
    /\ qlast' = [op |-> "Apply", pre |-> qb, scope |-> scope]
    /\ UNCHANGED <<mvars, sent, res, rvars, svars, cvars, tvars>>

(* model.Query(): a new builder on the model's table *)
Query ==
    /\ qb' = NewModelQueryBuilder
    /\ qlast' = [op |-> "Query", pre |-> qb, scope |-> NoScope]
    /\ UNCHANGED <<mvars, sent, res, rvars, svars, cvars, tvars>>

(* a store with one live row and one soft-deleted row *)
ScopeRows ==
    [k \in {"id1", "id2"} |->
        [c \in {primaryKey, DeletedAtColumn} |->
            IF c = primaryKey THEN k ELSE IF k = "id1" THEN Nil ELSE TimeStr[1]]]

ScopeInit ==
    /\ attributes = EmptyMap
    /\ original = EmptyMap
    /\ exists = FALSE
    /\ wasRecentlyCreated = FALSE
    /\ timestamps = TRUE
    /\ deletedAt \in {DeletedAtColumn, ""}
    /\ fillable = <<>>
    /\ guarded = <<>>
    /\ driver = "sqlite3"
    /\ dbRows = ScopeRows
    /\ clock = 0
    /\ issued = <<>>
    /\ last = NoOp
    /\ qb = NewModelQueryBuilder
    /\ sent = <<>>
    /\ res = NoResult
    /\ qlast = [op |-> "init", pre |-> NewModelQueryBuilder, scope |-> NoScope]
    /\ rb = <<>> /\ rel = <<>>
    /\ tx = <<>> /\ call = <<>>
    /\ global = <<>>
    /\ NoManager

ScopeNext ==
    \/ \E scope \in GlobalScopes : RegisterGlobal(scope)
    \/ ApplyGlobal
    \/ \E scope \in GlobalScopes : Apply(scope)
    \/ Query

SpecScope == ScopeInit /\ [][ScopeNext]_vars

(* the builder excludes the soft-deleted rows: it selects the live rows of
   the store and no other *)
ExcludesTrashed(q) ==
    SelectRows(q, dbRows) = {k \in DOMAIN dbRows : ~Trashed(dbRows[k])}

(* C19: on a builder that excludes soft-deleted rows by default, applying
   the include-trashed scope leaves no predicate on the deleted-at column,
   and applying the only-trashed scope makes the builder select exactly the
   soft-deleted rows *)
C19_TrashedScopesOverrideDefault ==
    (qlast.op = "Apply" /\ usesSoftDeletes /\ ExcludesTrashed(qlast.pre))
        => /\ qlast.scope = WithTrashedScope
                => \A i \in DOMAIN qb.wheres : qb.wheres[i].Column # deletedAt
           /\ qlast.scope = OnlyTrashedScope
                => SelectRows(qb, dbRows) = {k \in DOMAIN dbRows : Trashed(dbRows[k])}

----------------------------------------------------------------------------
(* QueryBuilder.Paginate                                                   *)

MaxPage == 3

(* the page sizes asked for *)
PerPages == {2, 10}

(* the numbers of rows that satisfy the builder's WHERE clause *)
RowCounts == {0, 1, 5, 25}

(* relationships.go:829-837: Data holds the number of rows returned;
   matching: the rows that satisfied the WHERE clause *)
PaginationResult(err, data, total, perPage, page, offset, matching) ==
    [err |-> err, Data |-> data, Total |-> total, PerPage |-> perPage,
     CurrentPage |-> page,
     LastPage |-> (total + perPage - 1) \div perPage,
     From |-> offset + 1,
     To |-> offset + data,
     matching |-> matching]

(* Paginate returned nil and the error *)
PaginateError(err, perPage, page, matching) ==
    [err |-> err, Data |-> 0, Total |-> 0, PerPage |-> perPage, CurrentPage |-> page,
     LastPage |-> 0, From |-> 0, To |-> 0, matching |-> matching]

(* relationships.go:805-826.  countOk, getOk: whether Connection.Select
   answered the count statement and the data statement. *)
Paginate(page, perPage) ==
    LET countQ == Limit(CountQuery(qb, "COUNT(*) as count"), 1)
        offset == (page - 1) * perPage
        dataQ == Limit(Offset(qb, offset), perPage)
    IN /\ qlast' = [op |-> "Paginate", pre |-> qb, page |-> page, perPage |-> perPage]
       /\ \E n \in RowCounts, countOk, getOk \in BOOLEAN :
          \E total \in {FirstRet(c, n) : c \in Results(ToSQL(countQ), n)},
             rows \in {d.n : d \in Results(ToSQL(dataQ), n)} :
               IF ~countOk \/ total.err # ""
               THEN /\ qb' = qb
                    /\ sent' = <<ToSQL(countQ)>>
                    /\ res' = PaginateError(IF ~countOk THEN "select failed" ELSE total.err,
                                            perPage, page, n)
               ELSE /\ qb' = dataQ
                    /\ sent' = <<ToSQL(countQ), ToSQL(dataQ)>>
                    /\ res' = IF ~getOk
                              THEN PaginateError("select failed", perPage, page, n)
                              ELSE PaginationResult("", rows, total.value, perPage,
                                                    page, offset, n)
       /\ UNCHANGED <<mvars, rvars, svars, cvars, tvars>>

(* the builders Paginate is called on *)
PaginateBuilders ==
    LET users == Table(NewQueryBuilder, "users")
    IN {users,
        Where(users, "status", <<"status1">>),
        OrderBy(users, "age", "desc"),
        Offset(Limit(users, 2), 1),
        GroupBy(users, <<"status">>)}

PaginateInit ==
    /\ ModelIdle
    /\ driver = "sqlite3"
    /\ qb \in PaginateBuilders
    /\ sent = <<>>
    /\ res = PaginateError("", 0, 0, 0)
    /\ qlast = [op |-> "init", pre |-> qb, page |-> 0, perPage |-> 0]
    /\ rb = <<>> /\ rel = <<>>
    /\ tx = <<>> /\ call = <<>>
    /\ global = <<>>
    /\ NoManager

PaginateNext ==
    \E page \in 1..MaxPage, perPage \in PerPages :
         \* each builder is paginated once
         qlast.op # "Paginate" /\ Paginate(page, perPage)

SpecPaginate == PaginateInit /\ [][PaginateNext]_vars

(* C20: a page that Paginate returns has total = the rows matching the
   query, whatever limit and offset the builder had, lastPage = the ceiling
   of total / perPage, from = (page-1)*perPage + 1 and to = from + rows
   returned - 1, with at most perPage rows; page 2 of 10 over 25 rows has
   10 rows, total 25, lastPage 3, from 11, to 20 *)
C20_PageArithmetic ==
    (qlast.op = "Paginate" /\ res.err = "")
        => /\ res.Total = res.matching
           /\ res.LastPage * qlast.perPage >= res.Total
           /\ (res.LastPage - 1) * qlast.perPage < res.Total
           /\ res.From = (qlast.page - 1) * qlast.perPage + 1
           /\ res.To = res.From + res.Data - 1
           /\ res.Data <= qlast.perPage
           /\ (qlast.page = 2 /\ qlast.perPage = 10 /\ res.matching = 25)
                 => /\ res.Data = 10 /\ res.Total = 25 /\ res.LastPage = 3
                    /\ res.From = 11 /\ res.To = 20

----------------------------------------------------------------------------
(* Claims about Restore                                                    *)

(* C21: Restore on a model without a soft-delete column returns an error and
   hands no statement to the connection; on a model with one it sets the
   column to nil and sends an UPDATE that carries the nil, which the store
   holds once the UPDATE succeeded *)
C21_RestoreClearsOrRefuses ==
    last.op = "Restore"
        => /\ ~usesSoftDeletes => (last.err /\ issued = <<>>)
           /\ (usesSoftDeletes /\ driver # "none")
                 => /\ attributes[deletedAt] = Nil
                    /\ Len(issued) = 1 /\ issued[1].kind = "UPDATE"
                    /\ deletedAt \in DOMAIN issued[1].cols
                    /\ issued[1].cols[deletedAt] = Nil
                    /\ (~last.err /\ issued[1].key \in DOMAIN dbRows)
                          => ~Trashed(dbRows[issued[1].key])

(* a persisted model with a soft-delete column was restored: its stored row
   carries the column, cleared *)
C21_Witness ==
    /\ last.op = "Restore" /\ usesSoftDeletes /\ last.existed /\ ~last.err
    /\ GetAttribute(primaryKey) \in DOMAIN dbRows
    /\ deletedAt \in DOMAIN dbRows[GetAttribute(primaryKey)]
    /\ dbRows[GetAttribute(primaryKey)][deletedAt] = Nil

----------------------------------------------------------------------------
(* Claims about the constraints of a relationship                          *)

(* the number of predicates the structural filter of a relationship is *)
StructuralWheres(r) ==
    IF r.Type \in {"morphOne", "morphMany"} THEN 2
    ELSE IF r.Type = "morphTo" THEN 0
    ELSE 1

IsPredicate(c) == c.fn \in {"Where", "WhereIn"}

IsOrder(c) == c.fn = "OrderBy"

IsLimit(c) == c.fn = "Limit"

(* the predicate a Where or WhereIn constraint stands for *)
PredicateOf(c) ==
    IF c.fn = "Where"
    THEN [Column |-> c.column, Type |-> "basic", Value |-> c.args[Len(c.args)], Values |-> <<>>]
    ELSE [Column |-> c.column, Type |-> "in", Value |-> Nil, Values |-> c.args]

(* C22: the builder a relationship operation runs holds the structural
   predicates first, then the predicates of the Where and WhereIn constraints
   in the order they were registered; its orders are the OrderBy constraints
   in that order and its limit is the last Limit constraint *)
C22_ConstraintsFollowStructure ==
    qlast.op \in RelationshipOps
        => LET q == qlast.pre
               n == StructuralWheres(rel)
               preds == SelectSeq(rel.Constraints, IsPredicate)
               ords == SelectSeq(rel.Constraints, IsOrder)
               lims == SelectSeq(rel.Constraints, IsLimit)
           IN /\ Len(q.wheres) = n + Len(preds)
              /\ \A i \in 1..n : q.wheres[i].Value = "PLACEHOLDER"
              /\ \A i \in DOMAIN preds :
                    /\ q.wheres[n + i].Column = PredicateOf(preds[i]).Column
                    /\ q.wheres[n + i].Type = PredicateOf(preds[i]).Type
                    /\ q.wheres[n + i].Value = PredicateOf(preds[i]).Value
                    /\ q.wheres[n + i].Values = PredicateOf(preds[i]).Values
              /\ Len(q.orders) = Len(ords)
              /\ \A i \in DOMAIN ords : q.orders[i].Column = ords[i].column
              /\ q.limitValue = (IF lims = <<>> THEN <<>> ELSE <<lims[Len(lims)].args[1]>>)

(* a relationship with two different predicates registered was queried *)
C22_Witness ==
    /\ qlast.op \in RelationshipOps
    /\ Len(sent) = 1
    /\ Len(rel.Constraints) = 2
    /\ rel.Constraints[1].fn = "WhereIn" /\ rel.Constraints[2].fn = "Where"
    /\ qlast.pre.wheres[Len(qlast.pre.wheres)].Type = "basic"

----------------------------------------------------------------------------
(* Claims about the order of the compiled clauses                          *)

(* the place of a clause keyword in a statement, 0 for any other token *)
ClauseRank(tok) ==
    CASE tok = "SELECT" -> 1
      [] tok = "DISTINCT" -> 2
      [] tok = "FROM" -> 3
      [] tok = "JOIN" -> 4
      [] tok = "WHERE" -> 5
      [] tok = "GROUP BY" -> 6
      [] tok = "HAVING" -> 7
      [] tok = "ORDER BY" -> 8
      [] tok = "LIMIT" -> 9
      [] tok = "OFFSET" -> 10
      [] OTHER -> 0

(* whether the builder has the clause a keyword opens *)
HasClause(q, tok) ==
    CASE tok = "DISTINCT" -> q.distinct
      [] tok = "JOIN" -> q.joins # <<>>
      [] tok = "WHERE" -> q.wheres # <<>>
      [] tok = "GROUP BY" -> q.groups # <<>>
      [] tok = "HAVING" -> q.havings # <<>>
      [] tok = "ORDER BY" -> q.orders # <<>>
      [] tok = "LIMIT" -> q.limitValue # <<>>
      [] tok = "OFFSET" -> q.offsetValue # <<>>
      [] OTHER -> TRUE

ClauseKeywords ==
    {"SELECT", "DISTINCT", "FROM", "JOIN", "WHERE", "GROUP BY", "HAVING", "ORDER BY",
     "LIMIT", "OFFSET"}

IsNotCross(join) == join.Type # "cross"

(* C23: the statement the builder compiles to opens with SELECT, names each
   clause the builder has and no other, in the order SELECT, DISTINCT, FROM,
   JOIN, WHERE, GROUP BY, HAVING, ORDER BY, LIMIT, OFFSET; a cross join is
   followed by no ON, and the first predicate follows WHERE directly, without
   its conjunction *)
C23_ClausesInFixedOrder ==
    LET sql == ToSQL(qb).sql
    IN /\ sql[1] = "SELECT"
       /\ \A tok \in ClauseKeywords : HasTok(sql, tok) <=> HasClause(qb, tok)
       /\ \A i, j \in DOMAIN sql :
             (i < j /\ ClauseRank(sql[i]) > 0 /\ ClauseRank(sql[j]) > 0)
                => /\ ClauseRank(sql[i]) <= ClauseRank(sql[j])
                   /\ ClauseRank(sql[i]) = ClauseRank(sql[j]) => sql[i] = "JOIN"
       /\ \A i \in DOMAIN sql :
             (sql[i] = "CROSS" /\ i + 3 <= Len(sql)) => sql[i + 3] # "ON"
       /\ CountTok(sql, "ON") = Len(SelectSeq(qb.joins, IsNotCross))
       /\ \A i \in DOMAIN sql :
             sql[i] = "WHERE" => sql[i + 1] = qb.wheres[1].Column

(* the builder holds a cross join and a first predicate stored with "or",
   and a statement was sent *)
C23_Witness ==
    /\ Len(sent) = 1
    /\ \E i \in DOMAIN qlast.pre.joins : qlast.pre.joins[i].Type = "cross"
    /\ Len(qlast.pre.wheres) = 1
    /\ qlast.pre.wheres[1].Boolean = "or"
    /\ HasTok(sent[1].sql, "CROSS") /\ HasTok(sent[1].sql, "WHERE")

(* C24: a Transaction call that returned nil committed its transaction: a
   Commit that failed is returned to the caller as an error *)
C24_NilMeansCommitted ==
    (call.pc = "done" /\ call.ret = "nil") => tx.state = "committed"

----------------------------------------------------------------------------
(* Claims about writes of a model that is not persisted                    *)

(* C25: Update, Delete and Restore called on a model that is not persisted
   hand no UPDATE and no DELETE to the connection and leave the model not
   persisted *)
C25_TransientIssuesNoWrite ==
    (last.op \in {"Update", "Delete", "Restore"} /\ ~last.existed)
        => /\ \A i \in DOMAIN issued : issued[i].kind \notin {"UPDATE", "DELETE"}
           /\ ~exists

----------------------------------------------------------------------------
(* Claims about a statement that fails                                     *)

(* C26: when the statement a Save, Update, Delete or Restore sent fails, the
   call leaves exists, the snapshot and the attribute map as they were *)
C26_FailedStatementChangesNothing ==
    [][(/\ last'.op \in {"Save", "Update", "Delete", "Restore"}
        /\ last'.err
        /\ issued' # <<>>)
          => (attributes' = attributes /\ original' = original /\ exists' = exists)]_vars

----------------------------------------------------------------------------
(* Claims about the builder a terminal operation is called on              *)

TerminalOps ==
    {"Get", "First", "FirstOrFail", "Find", "FindOrFail", "Count", "Sum", "Avg",
     "Max", "Min", "Paginate"}

(* C27: a terminal operation leaves the builder it is called on as it was:
   its columns, predicates, orders, limit and offset *)
C27_TerminalOpsKeepReceiver ==
    [][qlast'.op \in TerminalOps => qb' = qb]_vars

----------------------------------------------------------------------------
(* Claims about Relationship.Get                                           *)

OneKinds == {"hasOne", "belongsTo", "morphOne", "hasOneThrough"}

ManyKinds == {"hasMany", "belongsToMany", "hasManyThrough", "morphMany"}

(* C28: Get on a relationship of any kind but morphTo sends the built query,
   reading one row for the -one kinds and every row for the -many kinds;
   Get on a morphTo relationship sends nothing and returns an error *)
C28_GetRunsEveryKindButMorphTo ==
    qlast.op = "Relationship.Get"
        => /\ rel.Type \in OneKinds \cup ManyKinds \cup {"morphTo"}
           /\ rel.Type \in OneKinds
                 => /\ Len(sent) = 1
                    /\ qb.limitValue = <<1>>
                    /\ res.n <= 1
           /\ rel.Type \in ManyKinds
                 => /\ Len(sent) = 1
                    /\ qb = qlast.pre
                    /\ res.err \in {"", "select failed"}
           /\ rel.Type = "morphTo" => (sent = <<>> /\ res.err # "")

----------------------------------------------------------------------------
(* Claims about the bounds of a page                                       *)

(* C29: a page that Paginate returns has From <= To <= Total, also when the
   page lies past the last one and when no row matches *)
C29_PageBoundsAreOrdered ==
    (qlast.op = "Paginate" /\ res.err = "" /\ qlast.page >= 1 /\ qlast.perPage >= 1)
        => (res.From <= res.To /\ res.To <= res.Total)

\* ======================================================================
\* The package-level ConnectionManager (connection.go:32-96)
\* ======================================================================

\* The connection names the callers register.
ConnectionNames == {"default", "reporting"}

\* NewConnectionManager (connection.go:42-47): no connections, default name
\* "default".
NewConnectionManager == [connections |-> {}, default_ |-> "default"]

(* GetManager (connection.go:50-55), first step: the goroutine enters the
   function and reads the package variable for the nil test. Nothing orders
   this read against another goroutine's write: there is no sync.Once and no
   mutex. *)
GetManagerCheck(g) ==
    /\ caller[g].pc \in {"idle", "done"}
    /\ caller' = [caller EXCEPT ![g] =
                    [pc |-> IF manager = 0 THEN "new" ELSE "return",
                     made |-> manager, ret |-> 0]]
    /\ UNCHANGED <<manager, managers>>

(* GetManager, the body of the if: the goroutine that read nil allocates a
   ConnectionManager and stores it in the package variable, whatever the
   variable holds by now. *)
GetManagerNew(g) ==
    /\ caller[g].pc = "new"
    /\ managers' = Append(managers, NewConnectionManager)
    /\ manager' = Len(managers) + 1
    /\ caller' = [caller EXCEPT ![g] =
                    [pc |-> "return", made |-> Len(managers) + 1, ret |-> 0]]

(* GetManager, return manager: the read races with the other goroutines'
   writes, so the build may return what the variable holds now or the value
   this goroutine already has in hand (the one it stored, or the one it read
   for the nil test). *)
GetManagerReturn(g) ==
    /\ caller[g].pc = "return"
    /\ \E m \in {manager, caller[g].made} :
         caller' = [caller EXCEPT ![g] =
                      [pc |-> "done", made |-> caller[g].made, ret |-> m]]
    /\ UNCHANGED <<manager, managers>>

(* ConnectionManager.AddConnection (connection.go:58-76) on the manager the
   goroutine got from GetManager: a DSN or connect error returns before the
   map is touched, otherwise the connection is stored under its name. *)
AddConnection(g, name, ok) ==
    /\ caller[g].pc = "done"
    /\ managers' = IF ok
                   THEN [managers EXCEPT ![caller[g].ret].connections = @ \cup {name}]
                   ELSE managers
    /\ UNCHANGED <<manager, caller>>

(* ConnectionManager.GetConnection (connection.go:79-96) by name through
   the manager the goroutine holds: the connection under that name, else the
   one under the default name, else nil (written ""). *)
GetConnection(g, name) ==
    LET cm == managers[caller[g].ret]
    IN  IF name \in cm.connections THEN name
        ELSE IF cm.default_ \in cm.connections THEN cm.default_
        ELSE ""

ManagerInit ==
    /\ attributes = EmptyMap
    /\ original = EmptyMap
    /\ exists = FALSE
    /\ wasRecentlyCreated = FALSE
    /\ timestamps = TRUE
    /\ deletedAt = ""
    /\ fillable = <<>>
    /\ guarded = <<>>
    /\ driver = "sqlite3"
    /\ dbRows = <<>>
    /\ clock = 0
    /\ issued = <<>>
    /\ last = NoOp
    /\ qb = <<>> /\ sent = <<>> /\ res = <<>> /\ qlast = <<>>
    /\ rb = <<>> /\ rel = <<>>
    /\ tx = <<>> /\ call = <<>>
    /\ global = <<>>
    /\ NoManager

ManagerNext ==
    \/ \E g \in Goroutines :
         GetManagerCheck(g) /\ UNCHANGED <<mvars, qvars, rvars, svars, tvars>>
    \/ \E g \in Goroutines :
         GetManagerNew(g) /\ UNCHANGED <<mvars, qvars, rvars, svars, tvars>>
    \/ \E g \in Goroutines :
         GetManagerReturn(g) /\ UNCHANGED <<mvars, qvars, rvars, svars, tvars>>
    \/ \E g \in Goroutines, name \in ConnectionNames, ok \in BOOLEAN :
         AddConnection(g, name, ok) /\ UNCHANGED <<mvars, qvars, rvars, svars, tvars>>

SpecManager == ManagerInit /\ [][ManagerNext]_vars

\* the goroutines whose GetManager call has returned
Returned == {g \in Goroutines : caller[g].pc = "done"}

(* C30: GetManager returns the same ConnectionManager instance to every
   caller, also when the first calls run concurrently in several goroutines,
   so a connection added through one caller's manager can be looked up
   through every other caller's manager. *)
C30_OneManagerForEveryCaller ==
    \A g \in Returned, h \in Returned :
        /\ caller[g].ret = caller[h].ret
        /\ \A name \in ConnectionNames :
             GetConnection(g, name) = GetConnection(h, name)

====
